---------------------------- MODULE Spec2Model ----------------------------
(***************************************************************************)
(* Ainthinai classifier: the terrain classification rules                  *)
(* (TerrainAnalyzer.applyClassificationRules / getBestFitRegion) and the   *)
(* coast-distance estimator (APIClient.getCoastDistance) with the          *)
(* localStorage cache it reads and writes.                                 *)
(*                                                                         *)
(* Numbers.  A JavaScript number is a record [k, v]:                       *)
(*   [k |-> "fin", v |-> n]   the finite number n / Scale                  *)
(*   [k |-> "inf", v |-> 1]   Infinity     [k |-> "inf", v |-> -1] -Infinity*)
(*   [k |-> "nan", v |-> 0]   NaN                                          *)
(* Every value the rules compare an input with is an integer (50, 75, 160, *)
(* 200, 250, 300, 800, 1000), so a grid of 1/Scale around each of them     *)
(* reaches every region the comparisons can tell apart.                    *)
(***************************************************************************)
EXTENDS Integers, Sequences, FiniteSets

VARIABLES
    elevation,      \* argument of the classifier call (JS number)
    coastDistance,  \* argument of the classifier call (JS number)
    precipitation,  \* argument of the classifier call (JS number)
    called,         \* "none" | "apply" | "bestFit" | "applyPlain" | "bestFitPlain"
    region,         \* the value the call returned ("none" before the call)
    reasons,        \* what getClassificationExplanation returned for it
    localStorage,   \* the browser's localStorage: key -> [value, timestamp]
    now,            \* Date.now(), in ms since the start of the session
    coastFn,        \* "none" | "getCoastDistance" | "getCoastDistanceDebug"
    coastQuery,     \* the (lat, lon) of the last getCoastDistance call
    cacheHit,       \* whether that call returned the cached value
    scanned,        \* how many reference points that call's loop visited
    minDistance,    \* the value that call returned (JS number)
    coordinates,    \* the (lat, lon) classifyLocation is called on
    terrain,        \* what the two terrain APIs hold for that coordinate
    network,        \* whether each API answers during the current call
    elevationP,     \* the promise of APIClient.getElevation(lat, lon)
    coastDistanceP, \* the promise of APIClient.getCoastDistance(lat, lon)
    precipitationP, \* the promise of APIClient.getAnnualPrecipitation(lat, lon)
    phase,          \* "idle" | "awaiting" | "regions" | "done": where classifyLocation is
    completed,      \* the lookups of the current call in completion order
    applyCalls,     \* calls of applyClassificationRules in the current call
    result,         \* what classifyLocation returned or threw
    regionDataP,    \* the promise of this.loadRegionData() and what it settled to
    coordInput,     \* the numbers parseFloat reads from ?lat=&lon= of the page URL
    producer,       \* the entry point that called classifyAndDisplay or refused last
    classifyArgs,   \* whether classifyAndDisplay was called, and its (lat, lon)
    urlTimer,       \* "unread" | "none" | "pending" | "fired": setTimeout of handleUrlParams
    pendingEntry,   \* the lookups awaited by a handler: "geocode", "device"
    chip,           \* the coordinate of the newest history chip, as stored
    classifying,    \* the coordinates of the classifyAndDisplay calls that have not finished
    lastRequestTime,\* Geocoding.lastRequestTime, in ms since the page was loaded
    calls,          \* the pending Nominatim lookups: kind, position, timer
    sent,           \* the requests sent to Nominatim: kind, time, start of the call
    answers,        \* what the terrain APIs hold for each test location
    testIndex,      \* runTests: the entry of testLocations that is next
    runnerPc,       \* runTests: "next" | "classify" | "finished"
    results,        \* runTests: results.total, results.passed, results.failed
    historyItem,    \* the list stored under HistoryModule.STORAGE_KEY
    lastSave,       \* the last HistoryModule.save call: arguments, list before it
    pointA,         \* a coordinate haversineDistance is called with
    pointB,         \* the other coordinate
    distanceAB,     \* haversineDistance(A, B), once it has been called
    distanceBA,     \* haversineDistance(B, A), once it has been called
    retryPc,        \* fetchWithRetry: "idle" | "fetching" | "sleeping" | "returned" | "thrown"
    attempt,        \* fetchWithRetry: the loop variable attempt
    requestLog,     \* the requests of the call: ms slept before it was sent, outcome
    sleepLeft,      \* what is left of the current sleep(delay), in ms
    retryResult,    \* what fetchWithRetry returned or threw
    lookupPc,       \* getElevation on the cache: "idle" | "fetching"
    cacheRead,      \* its getFromCache call: time, storage before, value returned
    lookupEnd,      \* how it ended: "hit" | "written" | "notWritten" | "failed"
    sections,       \* which of the loading, results and error sections are un-hidden
    dataRegion,     \* the data-region attribute of the body ("none": absent)
    resultCard,     \* the request whose result the results section shows (0: none)
    shareContext,   \* the request ShareModule.setContext was last called for
    requests,       \* the pending requests: kind, coordinate, position
    started,        \* how many requests have been started
    latestLoc,      \* the coordinate of the request that was started last
    finishedOk      \* the requests that ended in showResults, with their labels

classifierVars ==
    <<elevation, coastDistance, precipitation, called, region, reasons>>

coastVars ==
    <<localStorage, now, coastFn, coastQuery, cacheHit, scanned, minDistance>>

locateVars ==
    <<coordinates, terrain, network, elevationP, coastDistanceP,
      precipitationP, phase, completed, applyCalls, result, regionDataP>>

entryVars ==
    <<coordInput, producer, classifyArgs, urlTimer, pendingEntry, chip, classifying>>

\* The state of the user interface around the classification.
nominatimVars == <<lastRequestTime, calls, sent>>

runnerVars == <<answers, testIndex, runnerPc, results>>

historyVars == <<historyItem, lastSave>>

haversineVars == <<pointA, pointB, distanceAB, distanceBA>>

retryVars == <<retryPc, attempt, requestLog, sleepLeft, retryResult>>

cacheVars == <<lookupPc, cacheRead, lookupEnd>>

displayVars ==
    <<sections, dataRegion, resultCard, shareContext, requests, started,
      latestLoc, finishedOk>>

\* The state of the modules around the classification.
uiVars ==
    <<entryVars, nominatimVars, runnerVars, historyVars, haversineVars,
      retryVars, cacheVars, displayVars>>

vars == <<classifierVars, coastVars, locateVars, uiVars>>

-----------------------------------------------------------------------------
(* Bounds of the model *)

\* Fixed-point resolution: the finite number x is the integer x * Scale.
Scale == 10

\* How many grid steps on each side of a comparison value are sampled.
Margin == 1

\* How many times the clock advances (by TickMs) in a session.
MaxTicks == 2

-----------------------------------------------------------------------------
(* JavaScript numbers and their relational operators *)

Fin(n) == [k |-> "fin", v |-> n]

NaN == [k |-> "nan", v |-> 0]

PosInfinity == [k |-> "inf", v |-> 1]

NegInfinity == [k |-> "inf", v |-> -1]

Null == [k |-> "null", v |-> 0]

\* x < y for two numbers.
NumLess(x, y) ==
    CASE x.k = "nan" \/ y.k = "nan" -> FALSE
      [] x.k = "fin" /\ y.k = "fin" -> x.v < y.v
      [] x.k = "inf" /\ y.k = "inf" -> x.v < y.v
      [] x.k = "inf"                -> x.v < 0
      [] OTHER                      -> y.v > 0

\* Math.min(x, y): NaN if either argument is NaN.
MathMin(x, y) ==
    IF x.k = "nan" \/ y.k = "nan" THEN NaN
    ELSE IF NumLess(y, x) THEN y ELSE x

IsFinite(x) == x.k = "fin"

\* x < t, x <= t, x >= t, x > t for a finite right-hand side t (an integer in
\* units of 1/Scale).  Every comparison with NaN is false.
JsLt(x, t) ==
    CASE x.k = "fin" -> x.v < t
      [] x.k = "inf" -> x.v < 0
      [] OTHER       -> FALSE

JsLe(x, t) ==
    CASE x.k = "fin" -> x.v <= t
      [] x.k = "inf" -> x.v < 0
      [] OTHER       -> FALSE

JsGe(x, t) ==
    CASE x.k = "fin" -> x.v >= t
      [] x.k = "inf" -> x.v > 0
      [] OTHER       -> FALSE

JsGt(x, t) ==
    CASE x.k = "fin" -> x.v > t
      [] x.k = "inf" -> x.v > 0
      [] OTHER       -> FALSE

-----------------------------------------------------------------------------
(* TerrainAnalyzer *)

THRESHOLDS ==
    [ COASTAL_DISTANCE  |-> 50,      \* km
      HIGH_ELEVATION    |-> 1000,    \* meters
      MID_ELEVATION_MIN |-> 200,     \* meters
      LOW_ELEVATION     |-> 200,     \* meters
      LOW_PRECIPITATION |-> 250 ]    \* mm/year

\* A threshold in units of 1/Scale.
Th(t) == t * Scale

\* t * (tenths / 10) in units of 1/Scale: the products 50 * 1.5, 1000 * 0.8,
\* 250 * 1.2 and 200 * 0.8 are the doubles 75, 800, 300 and 160 exactly.
ThTimes(t, tenths) == (t * tenths * Scale) \div 10

Category == {"Neithal", "Kurinji", "Paalai", "Mullai", "Marudham"}

\* 1. NEITHAL: close to coast and low elevation
neithalCheck(e, c, p) ==
    LET T == THRESHOLDS IN
    JsLe(c, Th(T.COASTAL_DISTANCE)) /\ JsLt(e, Th(T.LOW_ELEVATION))

\* Variant: the high-elevation bound taken as exclusive (> instead of >=).
kurinjiCheck_ExclusiveElevation(e, c, p) ==
    LET T == THRESHOLDS IN
    JsGt(e, Th(T.HIGH_ELEVATION)) /\ JsGt(c, Th(T.COASTAL_DISTANCE))

\* 2. KURINJI: high elevation and not coastal
kurinjiCheck(e, c, p) ==
    LET T == THRESHOLDS IN
    JsGe(e, Th(T.HIGH_ELEVATION)) /\ JsGt(c, Th(T.COASTAL_DISTANCE))

\* Variant: the precipitation bound taken as inclusive (<= instead of <).
paalaiCheck_InclusiveRain(e, c, p) ==
    LET T == THRESHOLDS IN
    /\ JsLe(p, Th(T.LOW_PRECIPITATION))
    /\ JsLt(e, Th(T.HIGH_ELEVATION))
    /\ JsGt(c, Th(T.COASTAL_DISTANCE))

\* Variant: the "not mountainous" conjunct left out.
paalaiCheck_NoElevation(e, c, p) ==
    LET T == THRESHOLDS IN
    /\ JsLt(p, Th(T.LOW_PRECIPITATION))
    /\ JsGt(c, Th(T.COASTAL_DISTANCE))

\* 3. PAALAI: low precipitation, not mountainous, not coastal
paalaiCheck(e, c, p) ==
    LET T == THRESHOLDS IN
    /\ JsLt(p, Th(T.LOW_PRECIPITATION))
    /\ JsLt(e, Th(T.HIGH_ELEVATION))
    /\ JsGt(c, Th(T.COASTAL_DISTANCE))

\* Variant: the mid-altitude floor taken as exclusive (> instead of >=).
mullaiCheck_ExclusiveFloor(e, c, p) ==
    LET T == THRESHOLDS IN
    /\ JsGt(e, Th(T.MID_ELEVATION_MIN))
    /\ JsLt(e, Th(T.HIGH_ELEVATION))
    /\ JsGe(p, Th(T.LOW_PRECIPITATION))
    /\ JsGt(c, Th(T.COASTAL_DISTANCE))

\* 4. MULLAI: mid-altitude, adequate rainfall, inland
mullaiCheck(e, c, p) ==
    LET T == THRESHOLDS IN
    /\ JsGe(e, Th(T.MID_ELEVATION_MIN))
    /\ JsLt(e, Th(T.HIGH_ELEVATION))
    /\ JsGe(p, Th(T.LOW_PRECIPITATION))
    /\ JsGt(c, Th(T.COASTAL_DISTANCE))

\* Variant: the "adequate rainfall" conjunct left out.
marudhamCheck_NoRain(e, c, p) ==
    LET T == THRESHOLDS IN
    /\ JsLt(e, Th(T.LOW_ELEVATION))
    /\ JsGt(c, Th(T.COASTAL_DISTANCE))

\* 5. MARUDHAM: low elevation, adequate rainfall, not coastal
marudhamCheck(e, c, p) ==
    LET T == THRESHOLDS IN
    /\ JsLt(e, Th(T.LOW_ELEVATION))
    /\ JsGe(p, Th(T.LOW_PRECIPITATION))
    /\ JsGt(c, Th(T.COASTAL_DISTANCE))

\* Variant: the relaxed checks without their slack factors.
getBestFitRegion_NoSlack(e, c, p) ==
    LET T == THRESHOLDS IN
    IF JsLe(c, Th(T.COASTAL_DISTANCE)) THEN "Neithal"
    ELSE IF JsGe(e, Th(T.HIGH_ELEVATION)) THEN "Kurinji"
    ELSE IF JsLt(p, Th(T.LOW_PRECIPITATION)) THEN "Paalai"
    ELSE IF /\ JsGe(e, Th(T.MID_ELEVATION_MIN))
            /\ JsLt(e, Th(T.HIGH_ELEVATION)) THEN "Mullai"
    ELSE "Marudham"

\* Variant: the elevation check placed before the coast check.
getBestFitRegion_KurinjiFirst(e, c, p) ==
    LET T == THRESHOLDS IN
    IF JsGe(e, ThTimes(T.HIGH_ELEVATION, 8)) THEN "Kurinji"
    ELSE IF JsLe(c, ThTimes(T.COASTAL_DISTANCE, 15)) THEN "Neithal"
    ELSE IF JsLt(p, ThTimes(T.LOW_PRECIPITATION, 12)) THEN "Paalai"
    ELSE IF /\ JsGe(e, ThTimes(T.MID_ELEVATION_MIN, 8))
            /\ JsLt(e, Th(T.HIGH_ELEVATION)) THEN "Mullai"
    ELSE "Marudham"

\* Best fit when no strict check passed.
getBestFitRegion(e, c, p) ==
    LET T == THRESHOLDS IN
    IF JsLe(c, ThTimes(T.COASTAL_DISTANCE, 15)) THEN "Neithal"
    ELSE IF JsGe(e, ThTimes(T.HIGH_ELEVATION, 8)) THEN "Kurinji"
    ELSE IF JsLt(p, ThTimes(T.LOW_PRECIPITATION, 12)) THEN "Paalai"
    ELSE IF /\ JsGe(e, ThTimes(T.MID_ELEVATION_MIN, 8))
            /\ JsLt(e, Th(T.HIGH_ELEVATION)) THEN "Mullai"
    ELSE "Marudham"

\* Variant: the final best-fit call left out, so that the function falls off
\* its end and returns undefined.
applyClassificationRules_NoFallback(e, c, p) ==
    IF neithalCheck(e, c, p) THEN "Neithal"
    ELSE IF kurinjiCheck(e, c, p) THEN "Kurinji"
    ELSE IF paalaiCheck(e, c, p) THEN "Paalai"
    ELSE IF mullaiCheck(e, c, p) THEN "Mullai"
    ELSE IF marudhamCheck(e, c, p) THEN "Marudham"
    ELSE "undefined"

applyClassificationRules(e, c, p) ==
    IF neithalCheck(e, c, p) THEN "Neithal"
    ELSE IF kurinjiCheck(e, c, p) THEN "Kurinji"
    ELSE IF paalaiCheck(e, c, p) THEN "Paalai"
    ELSE IF mullaiCheck(e, c, p) THEN "Mullai"
    ELSE IF marudhamCheck(e, c, p) THEN "Marudham"
    ELSE getBestFitRegion(e, c, p)

\* applyClassificationRules reaches its last line, the call of
\* getBestFitRegion: none of the five strict checks has returned.
reachesFallback(e, c, p) ==
    /\ ~neithalCheck(e, c, p)
    /\ ~kurinjiCheck(e, c, p)
    /\ ~paalaiCheck(e, c, p)
    /\ ~mullaiCheck(e, c, p)
    /\ ~marudhamCheck(e, c, p)

\* getClassificationExplanation: the reasons pushed for a label, each
\* without the formatted number it carries in brackets.
getClassificationExplanation(label, e, c, p) ==
    CASE label = "Neithal"  -> <<"Within 50km of the coast", "Low elevation">>
      [] label = "Kurinji"  -> <<"High elevation", "Mountainous terrain">>
      [] label = "Paalai"   -> <<"Low annual rainfall", "Arid conditions">>
      [] label = "Mullai"   -> <<"Mid-altitude elevation",
                                 "Adequate rainfall for vegetation",
                                 "Inland location">>
      [] label = "Marudham" -> <<"Low elevation",
                                 "Adequate rainfall for agriculture",
                                 "Fertile plains">>
      [] OTHER              -> << >>

\* Whether a value has a toFixed method: numbers have, null has not.
HasToFixed(x) == x.k \in {"fin", "inf", "nan"}

\* The argument of console.log('Neithal check:', ...): its reason formats
\* coastDistance.toFixed(1) when the check failed on the coast distance,
\* which throws a TypeError for a value without toFixed.
neithalLogThrows(e, c, p) ==
    LET T == THRESHOLDS IN
    /\ ~neithalCheck(e, c, p)
    /\ JsGt(c, Th(T.COASTAL_DISTANCE))
    /\ ~HasToFixed(c)

\* applyClassificationRules of terrain-analyzer.js with its logging: the
\* label, or the TypeError thrown while the log argument is built.
applyClassificationRulesLogged(e, c, p) ==
    IF neithalLogThrows(e, c, p) THEN "TypeError"
    ELSE applyClassificationRules(e, c, p)

\* The thresholds of the copy in api-client.js.
THRESHOLDS_Plain ==
    [ COASTAL_DISTANCE  |-> 50,      \* km
      HIGH_ELEVATION    |-> 1000,    \* meters
      MID_ELEVATION_MIN |-> 200,     \* meters
      LOW_ELEVATION     |-> 200,     \* meters
      LOW_PRECIPITATION |-> 250 ]    \* mm/year

\* getBestFitRegion of the copy in api-client.js.
getBestFitRegionPlain(e, c, p) ==
    LET T == THRESHOLDS_Plain IN
    IF JsLe(c, ThTimes(T.COASTAL_DISTANCE, 15)) THEN "Neithal"
    ELSE IF JsGe(e, ThTimes(T.HIGH_ELEVATION, 8)) THEN "Kurinji"
    ELSE IF JsLt(p, ThTimes(T.LOW_PRECIPITATION, 12)) THEN "Paalai"
    ELSE IF /\ JsGe(e, ThTimes(T.MID_ELEVATION_MIN, 8))
            /\ JsLt(e, Th(T.HIGH_ELEVATION)) THEN "Mullai"
    ELSE "Marudham"

\* Variant: the copy defaults to Marudham instead of calling its best fit.
applyClassificationRulesPlain_MarudhamDefault(e, c, p) ==
    LET T == THRESHOLDS_Plain IN
    IF JsLe(c, Th(T.COASTAL_DISTANCE)) /\ JsLt(e, Th(T.LOW_ELEVATION))
    THEN "Neithal"
    ELSE IF JsGe(e, Th(T.HIGH_ELEVATION)) /\ JsGt(c, Th(T.COASTAL_DISTANCE))
    THEN "Kurinji"
    ELSE IF /\ JsLt(p, Th(T.LOW_PRECIPITATION))
            /\ JsLt(e, Th(T.HIGH_ELEVATION))
            /\ JsGt(c, Th(T.COASTAL_DISTANCE))
    THEN "Paalai"
    ELSE IF /\ JsGe(e, Th(T.MID_ELEVATION_MIN))
            /\ JsLt(e, Th(T.HIGH_ELEVATION))
            /\ JsGe(p, Th(T.LOW_PRECIPITATION))
            /\ JsGt(c, Th(T.COASTAL_DISTANCE))
    THEN "Mullai"
    ELSE "Marudham"

\* applyClassificationRules of the copy in api-client.js: the five checks
\* written in the conditions of its if statements.
applyClassificationRulesPlain(e, c, p) ==
    LET T == THRESHOLDS_Plain IN
    IF JsLe(c, Th(T.COASTAL_DISTANCE)) /\ JsLt(e, Th(T.LOW_ELEVATION))
    THEN "Neithal"
    ELSE IF JsGe(e, Th(T.HIGH_ELEVATION)) /\ JsGt(c, Th(T.COASTAL_DISTANCE))
    THEN "Kurinji"
    ELSE IF /\ JsLt(p, Th(T.LOW_PRECIPITATION))
            /\ JsLt(e, Th(T.HIGH_ELEVATION))
            /\ JsGt(c, Th(T.COASTAL_DISTANCE))
    THEN "Paalai"
    ELSE IF /\ JsGe(e, Th(T.MID_ELEVATION_MIN))
            /\ JsLt(e, Th(T.HIGH_ELEVATION))
            /\ JsGe(p, Th(T.LOW_PRECIPITATION))
            /\ JsGt(c, Th(T.COASTAL_DISTANCE))
    THEN "Mullai"
    ELSE IF /\ JsLt(e, Th(T.LOW_ELEVATION))
            /\ JsGe(p, Th(T.LOW_PRECIPITATION))
            /\ JsGt(c, Th(T.COASTAL_DISTANCE))
    THEN "Marudham"
    ELSE getBestFitRegionPlain(e, c, p)

\* The five strict checks in the order the function evaluates them.
StrictOrder == <<"Neithal", "Kurinji", "Paalai", "Mullai", "Marudham">>

strictCheck(label, e, c, p) ==
    CASE label = "Neithal"  -> neithalCheck(e, c, p)
      [] label = "Kurinji"  -> kurinjiCheck(e, c, p)
      [] label = "Paalai"   -> paalaiCheck(e, c, p)
      [] label = "Mullai"   -> mullaiCheck(e, c, p)
      [] label = "Marudham" -> marudhamCheck(e, c, p)

\* applyClassificationRules with its strict checks evaluated in the order
\* `order`: the first check that passes returns its label, none passing
\* calls getBestFitRegion.
applyRulesInOrder(order, e, c, p) ==
    LET hits == { i \in 1..Len(order) : strictCheck(order[i], e, c, p) }
        first == CHOOSE i \in hits : \A j \in hits : i <= j
    IN  IF hits = {} THEN getBestFitRegion(e, c, p) ELSE order[first]

-----------------------------------------------------------------------------
(* APIClient: the localStorage cache *)

CACHE_DURATION == 24 * 60 * 60 * 1000   \* 24 hours in milliseconds

\* What JSON.parse(JSON.stringify({value, timestamp})).value is: a finite
\* number comes back unchanged, NaN and the infinities come back as null.
JsonRoundTrip(value) == IF value.k = "fin" THEN value ELSE Null

\* getFromCache(key) at time t on the storage `store`: the value returned
\* (Null for a miss) and the storage left behind (an expired item is removed).
\* An item that is not the JSON text of an object: JSON.parse throws on it.
Unparsable == [text |-> "{value:"]

\* Variant: an item is still valid at the age of CACHE_DURATION.
getFromCache_ExpiresLate(store, key, t) ==
    IF key \notin DOMAIN store
    THEN [value |-> Null, storage |-> store]
    ELSE IF store[key] = Unparsable
    THEN [value |-> Null, storage |-> store]
    ELSE IF t - store[key].timestamp <= CACHE_DURATION
    THEN [value |-> store[key].value, storage |-> store]
    ELSE [value |-> Null,
          storage |-> [k \in DOMAIN store \ {key} |-> store[k]]]

\* getFromCache(key) at time t on the storage `store`: the value returned
\* (Null for a miss) and the storage left behind (an expired item is removed;
\* an item JSON.parse throws on is left, the catch block returns null).
getFromCache(store, key, t) ==
    IF key \notin DOMAIN store
    THEN [value |-> Null, storage |-> store]
    ELSE IF store[key] = Unparsable
    THEN [value |-> Null, storage |-> store]
    ELSE IF t - store[key].timestamp < CACHE_DURATION
    THEN [value |-> store[key].value, storage |-> store]
    ELSE [value |-> Null,
          storage |-> [k \in DOMAIN store \ {key} |-> store[k]]]

\* Variant: writing an item drops every other item of the storage.
saveToCache_DropsOthers(store, key, value, t, setItemOk) ==
    IF setItemOk
    THEN [k \in {key} |-> [value |-> JsonRoundTrip(value), timestamp |-> t]]
    ELSE store

\* saveToCache(key, value) at time t; setItem may throw (storage full or
\* unavailable), which is caught and leaves the storage as it was.
saveToCache(store, key, value, t, setItemOk) ==
    IF setItemOk
    THEN [k \in DOMAIN store \cup {key} |->
            IF k = key THEN [value |-> JsonRoundTrip(value), timestamp |-> t]
            ELSE store[k]]
    ELSE store

-----------------------------------------------------------------------------
(* APIClient: the coast-distance estimator *)

\* The latitude and longitude of a reference point are integers in units of
\* 1/10000 degree.  The lat and lon a lookup is called with are numbers of
\* JavaScript, Fin(v) with v in the same unit, or a non-finite number.

\* The cache key `coast_${lat}_${lon}` (`coast_v2_...` in the logging copy).
CoastKey(lat, lon) == [name |-> "coast", lat |-> lat, lon |-> lon]

CoastKeyDebug(lat, lon) == [name |-> "coast_v2", lat |-> lat, lon |-> lon]

\* The reference points, in the order they are pushed.  The model keeps the
\* first block of the list, the thirteen explicit Indian coastal cities, and
\* the generated point that is nearest to Leh; for every coordinate the model
\* queries, the nearest point of the whole list (940 points) is one of these,
\* so the minimum over them is the minimum over the list.
getCoastalReferencePoints ==
    << [lat |-> 130800, lon |-> 802700],   \* Chennai
       [lat |-> 119300, lon |-> 798300],   \* Puducherry
       [lat |->  80900, lon |-> 775400],   \* Kanyakumari
       [lat |->  99300, lon |-> 762700],   \* Kochi
       [lat |-> 112500, lon |-> 757800],   \* Kozhikode
       [lat |-> 128700, lon |-> 748400],   \* Mangalore
       [lat |-> 153000, lon |-> 739900],   \* Goa (Panaji)
       [lat |-> 190800, lon |-> 728800],   \* Mumbai
       [lat |-> 189700, lon |-> 728200],   \* Navi Mumbai
       [lat |-> 211700, lon |-> 728300],   \* Surat
       [lat |-> 176900, lon |-> 832200],   \* Visakhapatnam
       [lat |-> 202700, lon |-> 858300],   \* Bhubaneswar
       [lat |-> 225700, lon |-> 883600],   \* Kolkata
       [lat |-> 230000, lon |-> 725000] >> \* generated: Gujarat (23.0, 72.5)

\* The same block in the logging copy (of 14632 points), which lists the
\* cities in another order, and its generated point nearest to Leh.
getCoastalReferencePointsDebug ==
    << [lat |-> 130800, lon |-> 802700],   \* Chennai
       [lat |-> 119300, lon |-> 798300],   \* Puducherry
       [lat |-> 176900, lon |-> 832200],   \* Visakhapatnam
       [lat |-> 202700, lon |-> 858300],   \* Bhubaneswar
       [lat |-> 225700, lon |-> 883600],   \* Kolkata
       [lat |-> 190800, lon |-> 728800],   \* Mumbai
       [lat |-> 189700, lon |-> 728200],   \* Navi Mumbai
       [lat |-> 211700, lon |-> 728300],   \* Surat
       [lat |-> 153000, lon |-> 739900],   \* Goa (Panaji)
       [lat |-> 128700, lon |-> 748400],   \* Mangalore
       [lat |-> 112500, lon |-> 757800],   \* Kozhikode
       [lat |->  99300, lon |-> 762700],   \* Kochi
       [lat |->  80900, lon |-> 775400],   \* Kanyakumari
       [lat |-> 229500, lon |-> 729485] >> \* generated: Gujarat (22.95, 72.9485)

\* The coordinates getCoastDistance is called with: Mumbai, Wayanad and
\* Patna of the test locations.
QueryPoints ==
    { [lat |-> Fin(190760), lon |-> Fin(728777)],
      [lat |-> Fin(116854), lon |-> Fin(761320)],
      [lat |-> Fin(255941), lon |-> Fin(851376)] }

\* The numbers App.handleUrlParams hands to classifyAndDisplay, and so to
\* getCoastDistance: parseFloat of the lat and lon of the page URL, whatever
\* passes !isNaN.  ?lat=19.076&lon=72.8777, ?lat=Infinity&lon=0 and
\* ?lat=19.076&lon=-Infinity.
UrlQueryPoints ==
    { [lat |-> Fin(190760), lon |-> Fin(728777)],
      [lat |-> PosInfinity, lon |-> Fin(0)],
      [lat |-> Fin(190760), lon |-> NegInfinity] }

\* haversineDistance evaluated in double arithmetic (R = 6371 km, angles
\* converted with toRadians) at the coordinates of the model, as
\* <<lat1, lon1, lat2, lon2, distance in meters rounded to the nearest>>.
HaversineMeters ==
    { \* Mumbai (19.0760, 72.8777)
      <<190760, 728777, 130800, 802700, 1033239>>,
      <<190760, 728777, 119300, 798300, 1088751>>,
      <<190760, 728777,  80900, 775400, 1321095>>,
      <<190760, 728777,  99300, 762700, 1080410>>,
      <<190760, 728777, 112500, 757800,  924178>>,
      <<190760, 728777, 128700, 748400,  721218>>,
      <<190760, 728777, 153000, 739900,  436174>>,
      <<190760, 728777, 190800, 728800,     506>>,
      <<190760, 728777, 189700, 728200,   13256>>,
      <<190760, 728777, 211700, 728300,  232895>>,
      <<190760, 728777, 176900, 832200, 1101973>>,
      <<190760, 728777, 202700, 858300, 1362285>>,
      <<190760, 728777, 225700, 883600, 1654392>>,
      \* Wayanad (11.6854, 76.1320)
      <<116854, 761320, 130800, 802700,  475406>>,
      <<116854, 761320, 119300, 798300,  403412>>,
      <<116854, 761320,  80900, 775400,  428501>>,
      <<116854, 761320,  99300, 762700,  195773>>,
      <<116854, 761320, 112500, 757800,   61769>>,
      <<116854, 761320, 128700, 748400,  192499>>,
      <<116854, 761320, 153000, 739900,  463858>>,
      <<116854, 761320, 190800, 728800,  892990>>,
      <<116854, 761320, 189700, 728200,  884340>>,
      <<116854, 761320, 211700, 728300, 1111725>>,
      <<116854, 761320, 176900, 832200, 1013091>>,
      <<116854, 761320, 202700, 858300, 1408281>>,
      <<116854, 761320, 225700, 883600, 1773746>>,
      \* Patna (25.5941, 85.1376)
      <<255941, 851376, 130800, 802700, 1481782>>,
      <<255941, 851376, 119300, 798300, 1618261>>,
      <<255941, 851376,  80900, 775400, 2106077>>,
      <<255941, 851376,  99300, 762700, 1976908>>,
      <<255941, 851376, 112500, 757800, 1873908>>,
      <<255941, 851376, 128700, 748400, 1778696>>,
      <<255941, 851376, 153000, 739900, 1628969>>,
      <<255941, 851376, 190800, 728800, 1452787>>,
      <<255941, 851376, 189700, 728200, 1464649>>,
      <<255941, 851376, 211700, 728300, 1348239>>,
      <<255941, 851376, 176900, 832200,  900915>>,
      <<255941, 851376, 202700, 858300,  596239>>,
      <<255941, 851376, 225700, 883600,  469086>>,
      \* the generated points (23.0, 72.5) and (22.95, 72.9485)
      <<190760, 728777, 230000, 725000,  438085>>,
      <<190760, 728777, 229500, 729485,  430832>>,
      <<116854, 761320, 230000, 725000, 1315622>>,
      <<116854, 761320, 229500, 729485, 1297170>>,
      <<255941, 851376, 230000, 725000, 1312245>>,
      <<255941, 851376, 229500, 729485, 1269500>>,
      \* Leh (34.1526, 77.5771)
      <<341526, 775771, 130800, 802700, 2358889>>,
      <<341526, 775771, 119300, 798300, 2481562>>,
      <<341526, 775771,  80900, 775400, 2898031>>,
      <<341526, 775771,  99300, 762700, 2696722>>,
      <<341526, 775771, 112500, 757800, 2553180>>,
      <<341526, 775771, 128700, 748400, 2382620>>,
      <<341526, 775771, 153000, 739900, 2126931>>,
      <<341526, 775771, 190800, 728800, 1739185>>,
      <<341526, 775771, 189700, 728200, 1752611>>,
      <<341526, 775771, 211700, 728300, 1516845>>,
      <<341526, 775771, 176900, 832200, 1914578>>,
      <<341526, 775771, 202700, 858300, 1744384>>,
      <<341526, 775771, 225700, 883600, 1662557>>,
      <<341526, 775771, 230000, 725000, 1334978>>,
      <<341526, 775771, 229500, 729485, 1324698>> }

\* The table as a function of <<lat1, lon1, lat2, lon2>>.
HaversineMetersAt ==
    [ k \in { <<r[1], r[2], r[3], r[4]>> : r \in HaversineMeters } |->
        (CHOOSE r \in HaversineMeters : <<r[1], r[2], r[3], r[4]>> = k)[5] ]

\* The distance in km as a number of the model (units of 1/Scale km), from
\* the numbers (lat1, lon1) to the reference point (lat2, lon2).  With a
\* non-finite lat1 or lon1 the difference dLat or dLon is infinite or NaN,
\* Math.sin of it is NaN, and so are a, c and the distance.
haversineDistance(lat1, lon1, lat2, lon2) ==
    IF IsFinite(lat1) /\ IsFinite(lon1)
    THEN Fin((HaversineMetersAt[<<lat1.v, lon1.v, lat2, lon2>>] * Scale) \div 1000)
    ELSE NaN

\* Variant: the loop stops one point short of the end of the list.
RECURSIVE scanMin_SkipLast(_, _, _, _, _)
scanMin_SkipLast(points, i, lat, lon, min) ==
    IF i > Len(points) - 1
    THEN [min |-> min, scanned |-> i - 1]
    ELSE scanMin_SkipLast(points, i + 1, lat, lon,
            MathMin(min, haversineDistance(lat, lon, points[i].lat, points[i].lon)))

\* for (const point of coastalPoints) { minDistance = Math.min(...) } from
\* the i-th point on, with the running minimum `min`: the final minimum and
\* the number of points visited.
RECURSIVE scanMin(_, _, _, _, _)
scanMin(points, i, lat, lon, min) ==
    IF i > Len(points)
    THEN [min |-> min, scanned |-> i - 1]
    ELSE scanMin(points, i + 1, lat, lon,
            MathMin(min, haversineDistance(lat, lon, points[i].lat, points[i].lon)))

\* The loop of the logging copy: if (distance < minDistance) minDistance = distance.
RECURSIVE scanMinDebug(_, _, _, _, _)
scanMinDebug(points, i, lat, lon, min) ==
    IF i > Len(points)
    THEN [min |-> min, scanned |-> i - 1]
    ELSE LET distance == haversineDistance(lat, lon, points[i].lat, points[i].lon)
         IN  scanMinDebug(points, i + 1, lat, lon,
                IF NumLess(distance, min) THEN distance ELSE min)

\* getCoastDistance(lat, lon) at time t on the storage `store`: the value
\* returned, whether it came from the cache, the number of reference points
\* visited and the storage left behind.
getCoastDistance(store, lat, lon, t, setItemOk) ==
    LET cacheKey == CoastKey(lat, lon)
        cached   == getFromCache(store, cacheKey, t)
        scan     == scanMin(getCoastalReferencePoints, 1, lat, lon, PosInfinity)
    IN  IF cached.value # Null
        THEN [result |-> cached.value, hit |-> TRUE, scanned |-> 0,
              storage |-> cached.storage]
        ELSE [result |-> scan.min, hit |-> FALSE, scanned |-> scan.scanned,
              storage |-> saveToCache(cached.storage, cacheKey, scan.min, t, setItemOk)]

getCoastDistanceDebug(store, lat, lon, t, setItemOk) ==
    LET cacheKey == CoastKeyDebug(lat, lon)
        cached   == getFromCache(store, cacheKey, t)
        scan     == scanMinDebug(getCoastalReferencePointsDebug, 1, lat, lon, PosInfinity)
    IN  IF cached.value # Null
        THEN [result |-> cached.value, hit |-> TRUE, scanned |-> 0,
              storage |-> cached.storage]
        ELSE [result |-> scan.min, hit |-> FALSE, scanned |-> scan.scanned,
              storage |-> saveToCache(cached.storage, cacheKey, scan.min, t, setItemOk)]

-----------------------------------------------------------------------------
(* Inputs of the classifier calls *)

Around(t) == { t * Scale + d : d \in (-Margin)..Margin }

NonFinite == {NaN, PosInfinity, NegInfinity}

ElevationInputs ==
    { Fin(n) : n \in Around(160) \cup Around(200) \cup Around(800)
                     \cup Around(1000)
                     \cup { m * Scale : m \in {-10, 0, 50, 100, 199, 500, 600, 3500} } }
    \cup NonFinite

CoastDistanceInputs ==
    { Fin(n) : n \in Around(50) \cup Around(75)
                     \cup { m * Scale : m \in {-1, 0, 5, 600, 800} } }
    \cup NonFinite

PrecipitationInputs ==
    { Fin(n) : n \in Around(250) \cup Around(300)
                     \cup { m * Scale : m \in {-1, 0, 150, 900, 1200} } }
    \cup NonFinite

-----------------------------------------------------------------------------
(* The classifier as a state machine: one call on one input triple *)

\* The cache and the estimator before any call: a session that starts with
\* an empty localStorage.
InitCoastVars ==
    /\ localStorage = << >>
    /\ now = 0
    /\ coastFn = "none"
    /\ coastQuery = [lat |-> Fin(0), lon |-> Fin(0)]
    /\ cacheHit = FALSE
    /\ scanned = 0
    /\ minDistance = Null

\* The terrainData of a result.
TerrainData(e, c, p) == [elevation |-> e, coastDistance |-> c, precipitation |-> p]

\* No region metadata: loadRegionData has not been reached.
NoRegionData == [from |-> "none", key |-> "none"]

\* classifyLocation has neither returned nor thrown.
NoResult ==
    [status |-> "none", region |-> "none", terrainData |-> TerrainData(Null, Null, Null),
     coordinates |-> [lat |-> Fin(0), lon |-> Fin(0)], message |-> "",
     regionData |-> NoRegionData]

\* No promise has been created: a lookup that has not been started.
NoPromise == [state |-> "none", value |-> Null, source |-> "none"]

\* classifyLocation before any call.
InitLocateVars ==
    /\ coordinates = [lat |-> Fin(0), lon |-> Fin(0)]
    /\ terrain = [elevation |-> Fin(0), precipitation |-> Fin(0)]
    /\ network = [elevation |-> TRUE, precipitation |-> TRUE]
    /\ elevationP = NoPromise
    /\ coastDistanceP = NoPromise
    /\ precipitationP = NoPromise
    /\ phase = "idle"
    /\ completed = << >>
    /\ applyCalls = 0
    /\ result = NoResult
    /\ regionDataP = "none"

\* classifyAndDisplay has not been called.
NotCalled == [status |-> "none", lat |-> Null, lon |-> Null, message |-> ""]

\* HistoryModule has rendered no chip.
NoChip == [saved |-> FALSE, lat |-> Null, lon |-> Null]

\* The entry points before any input.
InitEntryVars ==
    /\ coordInput = [lat |-> Fin(0), lon |-> Fin(0)]
    /\ producer = "none"
    /\ classifyArgs = NotCalled
    /\ urlTimer = "unread"
    /\ pendingEntry = {}
    /\ chip = NoChip
    /\ classifying = << >>

\* Geocoding.MIN_REQUEST_DELAY, in ms.
MIN_REQUEST_DELAY == 1000

\* How many Nominatim lookups a session starts.
MaxRequests == 3

\* A lookup that has not been started.
NoCall == [kind |-> "none", pc |-> "idle", wakeAt |-> 0, startedAt |-> 0]

\* No lookup has been started.  lastRequestTime: 0 is an instant long before
\* the page was loaded, so the first rate-limit check never waits.
InitNominatimVars ==
    /\ lastRequestTime = 0 - MIN_REQUEST_DELAY
    /\ calls = [i \in 1..MaxRequests |-> NoCall]
    /\ sent = << >>

\* runTests has not been called.
InitRunnerVars ==
    /\ answers = << >>
    /\ testIndex = 1
    /\ runnerPc = "next"
    /\ results = [total |-> 0, passed |-> 0, failed |-> 0]

\* No location has been saved: nothing is stored under STORAGE_KEY.
InitHistoryVars ==
    /\ historyItem = << >>
    /\ lastSave = [called |-> FALSE, lat |-> 0, lon |-> 0, stored |-> FALSE,
                   before |-> << >>]

\* A distance that has not been computed.
NoDistance == [m |-> -1, nm |-> 0]

\* haversineDistance has not been called on a pair.
InitHaversineVars ==
    /\ pointA = [lat |-> 0, lon |-> 0]
    /\ pointB = [lat |-> 0, lon |-> 0]
    /\ distanceAB = NoDistance
    /\ distanceBA = NoDistance

\* How many requests can be pending at once, and how many are started.
MaxOverlap == 2

MaxStarts == 2

\* A slot that holds no pending request.
NoRequest ==
    [id |-> 0, kind |-> "none", pc |-> "free", loc |-> [lat |-> 0, lon |-> 0],
     displayName |-> FALSE, region |-> "none"]

\* The page as it is loaded: the three sections hidden, nothing classified.
InitDisplayVars ==
    /\ sections = [loading |-> FALSE, results |-> FALSE, error |-> FALSE]
    /\ dataRegion = "none"
    /\ resultCard = 0
    /\ shareContext = 0
    /\ requests = [s \in 1..MaxOverlap |-> NoRequest]
    /\ started = 0
    /\ latestLoc = [lat |-> 0, lon |-> 0]
    /\ finishedOk = {}

\* getFromCache has not been called.
NoRead == [at |-> -1, before |-> << >>, value |-> Null]

\* No cache lookup has run.
InitCacheVars ==
    /\ lookupPc = "idle"
    /\ cacheRead = NoRead
    /\ lookupEnd = "none"

\* What fetchWithRetry has produced: nothing, the parsed body, or an error.
NoOutcome == [kind |-> "none", of |-> 0]

\* fetchWithRetry has not been called.
InitRetryVars ==
    /\ retryPc = "idle"
    /\ attempt = 0
    /\ requestLog = << >>
    /\ sleepLeft = 0
    /\ retryResult = NoOutcome

InitUiVars ==
    /\ InitEntryVars
    /\ InitNominatimVars
    /\ InitRunnerVars
    /\ InitHistoryVars
    /\ InitHaversineVars
    /\ InitDisplayVars
    /\ InitCacheVars
    /\ InitRetryVars

InitClassifier ==
    /\ elevation \in ElevationInputs
    /\ coastDistance \in CoastDistanceInputs
    /\ precipitation \in PrecipitationInputs
    /\ called = "none"
    /\ region = "none"
    /\ reasons = << >>
    /\ InitCoastVars
    /\ InitLocateVars
    /\ InitUiVars

CallApplyClassificationRules ==
    /\ called = "none"
    /\ called' = "apply"
    /\ region' = applyClassificationRules(elevation, coastDistance, precipitation)
    /\ UNCHANGED <<elevation, coastDistance, precipitation, reasons,
                   coastVars, locateVars, uiVars>>

CallGetBestFitRegion ==
    /\ called = "none"
    /\ called' = "bestFit"
    /\ region' = getBestFitRegion(elevation, coastDistance, precipitation)
    /\ UNCHANGED <<elevation, coastDistance, precipitation, reasons,
                   coastVars, locateVars, uiVars>>

\* getClassificationExplanation(region, terrainData) on the label and the
\* terrain data of the classification.
CallGetClassificationExplanation ==
    /\ called = "apply"
    /\ reasons = << >>
    /\ reasons' = getClassificationExplanation(region, elevation, coastDistance,
                                               precipitation)
    /\ UNCHANGED <<elevation, coastDistance, precipitation, called, region,
                   coastVars, locateVars, uiVars>>

\* applyClassificationRules of the copy in api-client.js.
CallApplyClassificationRulesPlain ==
    /\ called = "none"
    /\ called' = "applyPlain"
    /\ region' = applyClassificationRulesPlain(elevation, coastDistance,
                                               precipitation)
    /\ UNCHANGED <<elevation, coastDistance, precipitation, reasons,
                   coastVars, locateVars, uiVars>>

\* getBestFitRegion of the copy in api-client.js.
CallGetBestFitRegionPlain ==
    /\ called = "none"
    /\ called' = "bestFitPlain"
    /\ region' = getBestFitRegionPlain(elevation, coastDistance, precipitation)
    /\ UNCHANGED <<elevation, coastDistance, precipitation, reasons,
                   coastVars, locateVars, uiVars>>

NextClassifier ==
    \/ CallApplyClassificationRules
    \/ CallGetBestFitRegion
    \/ CallGetClassificationExplanation
    \/ CallApplyClassificationRulesPlain
    \/ CallGetBestFitRegionPlain

SpecClassifier == InitClassifier /\ [][NextClassifier]_vars

-----------------------------------------------------------------------------
(* The coast-distance estimator as a state machine: calls of both copies   *)
(* of getCoastDistance on one localStorage, and the passing of time.       *)

\* The clock advances in steps of twelve hours.
TickMs == 12 * 60 * 60 * 1000

InitCoast ==
    /\ elevation = Fin(0)
    /\ coastDistance = Fin(0)
    /\ precipitation = Fin(0)
    /\ called = "none"
    /\ region = "none"
    /\ reasons = << >>
    /\ InitCoastVars
    /\ InitLocateVars
    /\ InitUiVars

CallGetCoastDistance ==
    \E q \in QueryPoints, setItemOk \in BOOLEAN :
        \E r \in { getCoastDistance(localStorage, q.lat, q.lon, now, setItemOk) } :
        /\ coastFn' = "getCoastDistance"
        /\ coastQuery' = q
        /\ cacheHit' = r.hit
        /\ scanned' = r.scanned
        /\ minDistance' = r.result
        /\ localStorage' = r.storage
        /\ UNCHANGED <<now, classifierVars, locateVars, uiVars>>

CallGetCoastDistanceDebug ==
    \E q \in QueryPoints, setItemOk \in BOOLEAN :
        \E r \in { getCoastDistanceDebug(localStorage, q.lat, q.lon, now, setItemOk) } :
        /\ coastFn' = "getCoastDistanceDebug"
        /\ coastQuery' = q
        /\ cacheHit' = r.hit
        /\ scanned' = r.scanned
        /\ minDistance' = r.result
        /\ localStorage' = r.storage
        /\ UNCHANGED <<now, classifierVars, locateVars, uiVars>>

Tick ==
    /\ now < MaxTicks * TickMs
    /\ now' = now + TickMs
    /\ UNCHANGED <<localStorage, coastFn, coastQuery, cacheHit, scanned,
                   minDistance, classifierVars, locateVars, uiVars>>

NextCoast == CallGetCoastDistance \/ CallGetCoastDistanceDebug \/ Tick

SpecCoast == InitCoast /\ [][NextCoast]_vars

\* The same two calls as classifyLocation makes them for a page opened with
\* a coordinate in its URL: handleUrlParams tests !isNaN only, and
\* classifyAndDisplay and classifyLocation pass lat and lon on as they are.
CallGetCoastDistanceFromUrl ==
    \E q \in UrlQueryPoints, setItemOk \in BOOLEAN :
        \E r \in { getCoastDistance(localStorage, q.lat, q.lon, now, setItemOk) } :
        /\ coastFn' = "getCoastDistance"
        /\ coastQuery' = q
        /\ cacheHit' = r.hit
        /\ scanned' = r.scanned
        /\ minDistance' = r.result
        /\ localStorage' = r.storage
        /\ UNCHANGED <<now, classifierVars, locateVars, uiVars>>

CallGetCoastDistanceDebugFromUrl ==
    \E q \in UrlQueryPoints, setItemOk \in BOOLEAN :
        \E r \in { getCoastDistanceDebug(localStorage, q.lat, q.lon, now, setItemOk) } :
        /\ coastFn' = "getCoastDistanceDebug"
        /\ coastQuery' = q
        /\ cacheHit' = r.hit
        /\ scanned' = r.scanned
        /\ minDistance' = r.result
        /\ localStorage' = r.storage
        /\ UNCHANGED <<now, classifierVars, locateVars, uiVars>>

NextCoastUrl ==
    CallGetCoastDistanceFromUrl \/ CallGetCoastDistanceDebugFromUrl \/ Tick

SpecCoastUrl == InitCoast /\ [][NextCoastUrl]_vars

-----------------------------------------------------------------------------
(* TerrainAnalyzer.classifyLocation as a state machine: the three lookups  *)
(* are started together, the two network lookups complete in any order,    *)
(* and the classification follows the join.                                *)

\* The cache keys `elevation_${lat}_${lon}` and `precipitation_${lat}_${lon}`.
ElevationKey(lat, lon) == [name |-> "elevation", lat |-> lat, lon |-> lon]

PrecipitationKey(lat, lon) == [name |-> "precipitation", lat |-> lat, lon |-> lon]

\* return 500: the value getAnnualPrecipitation substitutes on failure.
DefaultPrecipitation == Fin(500 * Scale)

\* What the elevation API (meters) and the archive API (mm per year, summed)
\* answer for the coordinate of a session.
ElevationAnswers == { Fin(150 * Scale), Fin(500 * Scale), Fin(1200 * Scale) }

PrecipitationAnswers == { Fin(100 * Scale), Fin(500 * Scale) }

\* A promise fulfilled with a value read from the cache, received from the
\* network, computed locally or substituted as a default; a pending and a
\* rejected promise.
Fulfilled(value, source) == [state |-> "fulfilled", value |-> value, source |-> source]

Pending == [state |-> "pending", value |-> Null, source |-> "network"]

Rejected == [state |-> "rejected", value |-> Null, source |-> "network"]

\* The synchronous part of getElevation / getAnnualPrecipitation: the cache
\* lookup, answered at once on a hit and followed by a request on a miss.
startLookup(store, key, t) ==
    LET cached == getFromCache(store, key, t)
    IN  [promise |-> IF cached.value # Null THEN Fulfilled(cached.value, "cache")
                     ELSE Pending,
         storage |-> cached.storage]

\* Variant: the catch block of getAnnualPrecipitation rethrows.
precipitationOnFailure_Rethrows == Rejected

\* The catch block of getAnnualPrecipitation: return 500.
precipitationOnFailure == Fulfilled(DefaultPrecipitation, "default")

\* Variant: the catch block caches the value it returns.
catchPrecipitation_CachesDefault(store, key, t, setItemOk) ==
    [promise |-> precipitationOnFailure,
     storage |-> saveToCache(store, key, DefaultPrecipitation, t, setItemOk)]

\* getAnnualPrecipitation when fetchWithRetry or the format check throws:
\* the catch block logs and returns; it does not call saveToCache.
catchPrecipitation(store, key, t, setItemOk) ==
    [promise |-> precipitationOnFailure, storage |-> store]

\* Promise.all rejects: one of its promises has rejected.
AnyLookupRejected ==
    \/ elevationP.state = "rejected"
    \/ coastDistanceP.state = "rejected"
    \/ precipitationP.state = "rejected"

\* Variant: the join waits for the elevation and the coast distance only.
LookupsFulfilled_IgnoresPrecipitation ==
    /\ elevationP.state = "fulfilled"
    /\ coastDistanceP.state = "fulfilled"

\* await Promise.all([...]) resumes: the three promises are fulfilled.
LookupsFulfilled ==
    /\ elevationP.state = "fulfilled"
    /\ coastDistanceP.state = "fulfilled"
    /\ precipitationP.state = "fulfilled"

\* What fetch('data/regions.json') can bring: the table of the five regions,
\* a response whose body is the JSON text null, or no usable response (the
\* fetch rejects, the status is not ok, or the body is not JSON).
RegionsAnswers == {"table", "null", "failed"}

\* loadRegionData(): what response.json() gives for an ok response, or the
\* table of the catch block.  It never throws.
loadRegionData(answer) ==
    CASE answer = "table" -> "regions.json"
      [] answer = "null"  -> "null"
      [] OTHER            -> "fallback"

\* The object classifyLocation returns for the label of line 72
\* (regionData is the entry of the loaded table under the label, kept as
\* the table's origin and the key).
classifyResult(lat, lon, label, e, c, p, regions) ==
    [status |-> "ok", region |-> label,
     terrainData |-> TerrainData(e, c, p),
     coordinates |-> [lat |-> lat, lon |-> lon], message |-> "",
     regionData |-> [from |-> regions, key |-> label]]

\* The error classifyLocation throws from its catch block.
classifyError ==
    [status |-> "error", region |-> "none", terrainData |-> TerrainData(Null, Null, Null),
     coordinates |-> [lat |-> Fin(0), lon |-> Fin(0)],
     message |-> "Failed to analyze terrain. Please try again.",
     regionData |-> NoRegionData]

InitLocate ==
    /\ elevation = Fin(0)
    /\ coastDistance = Fin(0)
    /\ precipitation = Fin(0)
    /\ called = "none"
    /\ region = "none"
    /\ reasons = << >>
    /\ InitCoastVars
    /\ coordinates \in QueryPoints
    /\ terrain \in [elevation : ElevationAnswers, precipitation : PrecipitationAnswers]
    /\ network = [elevation |-> TRUE, precipitation |-> TRUE]
    /\ elevationP = NoPromise
    /\ coastDistanceP = NoPromise
    /\ precipitationP = NoPromise
    /\ phase = "idle"
    /\ completed = << >>
    /\ applyCalls = 0
    /\ result = NoResult
    /\ regionDataP = "none"
    /\ InitUiVars

\* classifyLocation(lat, lon) up to its await: the three lookups are called
\* in the order of the array; each runs its cache lookup at once, and
\* getCoastDistance, which awaits nothing, runs to its end.
StartClassifyLocation ==
    /\ phase \in {"idle", "done"}
    /\ elevationP.state # "pending"
    /\ precipitationP.state # "pending"
    /\ \E elevationUp, precipitationUp, setItemOk \in BOOLEAN :
       \E e \in { startLookup(localStorage, ElevationKey(coordinates.lat, coordinates.lon), now) } :
       \E c \in { getCoastDistance(e.storage, coordinates.lat, coordinates.lon, now, setItemOk) } :
       \E p \in { startLookup(c.storage, PrecipitationKey(coordinates.lat, coordinates.lon), now) } :
          /\ network' = [elevation |-> elevationUp, precipitation |-> precipitationUp]
          /\ elevationP' = e.promise
          /\ coastDistanceP' = Fulfilled(c.result, IF c.hit THEN "cache" ELSE "computed")
          /\ precipitationP' = p.promise
          /\ localStorage' = p.storage
          /\ coastFn' = "getCoastDistance"
          /\ coastQuery' = coordinates
          /\ cacheHit' = c.hit
          /\ scanned' = c.scanned
          /\ minDistance' = c.result
          /\ completed' = (IF e.promise.state = "fulfilled" THEN <<"elevation">> ELSE << >>)
                          \o <<"coastDistance">>
                          \o (IF p.promise.state = "fulfilled" THEN <<"precipitation">> ELSE << >>)
    /\ phase' = "awaiting"
    /\ applyCalls' = 0
    /\ result' = NoResult
    /\ regionDataP' = "none"
    /\ UNCHANGED <<now, coordinates, terrain, classifierVars, uiVars>>

\* fetchWithRetry of getElevation settles: the elevation is cached and
\* returned, or the lookup throws 'Failed to get elevation data'.
CompleteElevation ==
    /\ elevationP.state = "pending"
    /\ \E setItemOk \in BOOLEAN :
          IF network.elevation
          THEN /\ elevationP' = Fulfilled(terrain.elevation, "network")
               /\ localStorage' = saveToCache(localStorage,
                      ElevationKey(coordinates.lat, coordinates.lon),
                      terrain.elevation, now, setItemOk)
          ELSE /\ elevationP' = Rejected
               /\ UNCHANGED localStorage
    /\ completed' = Append(completed, "elevation")
    /\ UNCHANGED <<now, coastFn, coastQuery, cacheHit, scanned, minDistance,
                   coordinates, terrain, network, coastDistanceP, precipitationP,
                   phase, applyCalls, result, regionDataP, classifierVars, uiVars>>

\* fetchWithRetry of getAnnualPrecipitation settles: the yearly sum is cached
\* and returned, or the catch block returns 500.
CompletePrecipitation ==
    /\ precipitationP.state = "pending"
    /\ \E setItemOk \in BOOLEAN :
          IF network.precipitation
          THEN /\ precipitationP' = Fulfilled(terrain.precipitation, "network")
               /\ localStorage' = saveToCache(localStorage,
                      PrecipitationKey(coordinates.lat, coordinates.lon),
                      terrain.precipitation, now, setItemOk)
          ELSE \E r \in { catchPrecipitation(localStorage,
                               PrecipitationKey(coordinates.lat, coordinates.lon),
                               now, setItemOk) } :
                  /\ precipitationP' = r.promise
                  /\ localStorage' = r.storage
    /\ completed' = Append(completed, "precipitation")
    /\ UNCHANGED <<now, coastFn, coastQuery, cacheHit, scanned, minDistance,
                   coordinates, terrain, network, elevationP, coastDistanceP,
                   phase, applyCalls, result, regionDataP, classifierVars, uiVars>>

\* The await of Promise.all resumes with the three values: the rules are
\* applied to them (line 72) and loadRegionData is called, whose fetch
\* leaves classifyLocation pending.
ClassifyAfterJoin ==
    /\ phase = "awaiting"
    /\ LookupsFulfilled
    /\ applyCalls' = applyCalls + 1
    /\ elevation' = elevationP.value
    /\ coastDistance' = coastDistanceP.value
    /\ precipitation' = precipitationP.value
    /\ called' = "apply"
    /\ region' = applyClassificationRules(elevationP.value, coastDistanceP.value,
                                          precipitationP.value)
    /\ regionDataP' = "pending"
    /\ phase' = "regions"
    /\ UNCHANGED <<coastVars, coordinates, terrain, network, elevationP,
                   coastDistanceP, precipitationP, completed, result, reasons,
                   uiVars>>

\* The fetch of data/regions.json settles and loadRegionData returns: the
\* result object is built from the label and the three values of the call.
\* Reading regionData[region] of a null table throws a TypeError, which the
\* catch block of classifyLocation turns into its own error.
ReturnAfterRegionData ==
    /\ phase = "regions"
    /\ \E answer \in RegionsAnswers :
          /\ regionDataP' = loadRegionData(answer)
          /\ result' = IF regionDataP' = "null" THEN classifyError
                       ELSE classifyResult(coordinates.lat, coordinates.lon, region,
                                           elevation, coastDistance, precipitation,
                                           regionDataP')
    /\ phase' = "done"
    /\ UNCHANGED <<coastVars, coordinates, terrain, network, elevationP,
                   coastDistanceP, precipitationP, completed, applyCalls,
                   classifierVars, uiVars>>

\* Promise.all rejects as soon as one lookup has rejected: the catch block
\* throws, whether or not the other lookups have settled.
ClassifyFails ==
    /\ phase = "awaiting"
    /\ AnyLookupRejected
    /\ result' = classifyError
    /\ phase' = "done"
    /\ UNCHANGED <<coastVars, coordinates, terrain, network, elevationP,
                   coastDistanceP, precipitationP, completed, applyCalls,
                   regionDataP, classifierVars, uiVars>>

NextLocate ==
    \/ StartClassifyLocation
    \/ CompleteElevation
    \/ CompletePrecipitation
    \/ ClassifyAfterJoin
    \/ ReturnAfterRegionData
    \/ ClassifyFails
    \/ Tick

SpecLocate == InitLocate /\ [][NextLocate]_vars

-----------------------------------------------------------------------------
(* The entry points that hand a coordinate to classifyAndDisplay: the      *)
(* search box (typed coordinates through Geocoding.parseCoordinates, place *)
(* names through Geocoding.geocode), the device location, the ?lat=&lon=   *)
(* parameters of the page URL (App.handleUrlParams) and the history chips. *)
(* A coordinate is a pair of JS numbers, in whole degrees.  A handler that *)
(* awaits a timer or a network answer is two actions.                      *)

\* What parseFloat reads from the lat and lon parameters of the page URL:
\* numbers inside and outside the valid ranges, Infinity, and NaN for text
\* that is not a decimal number.
UrlInputs ==
    { [lat |-> Fin(13), lon |-> Fin(80)], [lat |-> Fin(91), lon |-> Fin(181)],
      [lat |-> Fin(-91), lon |-> Fin(0)], [lat |-> Fin(0), lon |-> Fin(-181)],
      [lat |-> PosInfinity, lon |-> Fin(0)], [lat |-> NaN, lon |-> Fin(80)],
      [lat |-> Fin(13), lon |-> NaN] }

\* Coordinates typed into the search box: text that matches coordPattern
\* is a pair of decimal numbers.
TypedInputs ==
    { [lat |-> Fin(13), lon |-> Fin(80)], [lat |-> Fin(-90), lon |-> Fin(-180)],
      [lat |-> Fin(90), lon |-> Fin(180)], [lat |-> Fin(91), lon |-> Fin(0)],
      [lat |-> Fin(-91), lon |-> Fin(0)], [lat |-> Fin(0), lon |-> Fin(181)],
      [lat |-> Fin(0), lon |-> Fin(-181)] }

\* What parseFloat reads from data[0].lat and data[0].lon of an answer of
\* Nominatim.
GeocoderAnswers ==
    { [lat |-> Fin(13), lon |-> Fin(80)], [lat |-> Fin(91), lon |-> Fin(181)],
      [lat |-> NaN, lon |-> NaN] }

\* position.coords.latitude and position.coords.longitude of the browser.
DevicePositions == { [lat |-> Fin(13), lon |-> Fin(80)], [lat |-> Fin(-90), lon |-> Fin(180)] }

\* The coordinate is handed to TerrainAnalyzer.classifyLocation.
Classify(lat, lon) == [status |-> "classified", lat |-> lat, lon |-> lon, message |-> ""]

\* The entry point throws or shows an error instead.
Refuse(message) == [status |-> "refused", lat |-> Null, lon |-> Null, message |-> message]

\* Geocoding.parseCoordinates on text that matches its pattern.
parseCoordinates(lat, lon) ==
    IF NumLess(lat, Fin(-90)) \/ NumLess(Fin(90), lat)
    THEN Refuse("Latitude must be between -90 and 90")
    ELSE IF NumLess(lon, Fin(-180)) \/ NumLess(Fin(180), lon)
    THEN Refuse("Longitude must be between -180 and 180")
    ELSE Classify(lat, lon)

\* App.handleUrlParams with both parameters present: the only test is
\* isNaN; Classify is the call its timer will make.
handleUrlParams(lat, lon) ==
    IF lat.k # "nan" /\ lon.k # "nan"
    THEN Classify(lat, lon)
    ELSE Refuse("")

\* APIClient.geocodeAddress on a non-empty answer: the two numbers are
\* returned as parseFloat read them, and handleSearch hands them over.
geocodeAddress(lat, lon) == Classify(lat, lon)

\* parseFloat(chip.dataset.lat): the attribute is the text of the stored
\* number, "null" for a number JSON.stringify could not write.
parseChip(stored) == IF stored = Null THEN NaN ELSE stored

InitEntry ==
    /\ elevation = Fin(0)
    /\ coastDistance = Fin(0)
    /\ precipitation = Fin(0)
    /\ called = "none"
    /\ region = "none"
    /\ reasons = << >>
    /\ InitCoastVars
    /\ InitLocateVars
    /\ coordInput \in UrlInputs
    /\ producer = "none"
    /\ classifyArgs = NotCalled
    /\ urlTimer = "unread"
    /\ pendingEntry = {}
    /\ chip = NoChip
    /\ classifying = << >>
    /\ InitNominatimVars
    /\ InitRunnerVars
    /\ InitHistoryVars
    /\ InitHaversineVars
    /\ InitDisplayVars
    /\ InitCacheVars
    /\ InitRetryVars

\* HistoryModule.clear(), bound to the Clear button of the chips: the item is removed and render leaves no chip.
Clear ==
    /\ historyItem' = << >>
    /\ chip' = NoChip
    /\ UNCHANGED <<lastSave, coordInput, producer, classifyArgs, urlTimer,
                   pendingEntry, classifying, nominatimVars, runnerVars,
                   haversineVars, displayVars, cacheVars, retryVars,
                   classifierVars, coastVars, locateVars>>

\* classifyAndDisplay(lat, lon) is called with the coordinate of args, or
\* is not called when the entry point refused: the calls that have not
\* finished, oldest first.
Handed(args) ==
    IF args.status = "classified"
    THEN Append(classifying, [lat |-> args.lat, lon |-> args.lon])
    ELSE classifying

\* The list without its i-th entry.
Without(list, i) == SubSeq(list, 1, i - 1) \o SubSeq(list, i + 1, Len(list))

\* App.handleSearch on typed coordinates: Geocoding.search awaits nothing
\* on this path, so classifyAndDisplay is called in the same task.
HandleSearchCoordinates ==
    /\ \E input \in TypedInputs :
          classifyArgs' = parseCoordinates(input.lat, input.lon)
    /\ classifying' = Handed(classifyArgs')
    /\ Len(classifying') <= MaxOverlap
    /\ producer' = "typed"
    /\ UNCHANGED <<coordInput, urlTimer, pendingEntry, chip, classifierVars, coastVars, locateVars,
                   nominatimVars, runnerVars, historyVars, haversineVars,
                   displayVars, cacheVars, retryVars>>

\* App.handleSearch on a place name: Geocoding.geocode awaits the rate
\* limit and the answer of Nominatim.
HandleSearchPlaceName ==
    /\ "geocode" \notin pendingEntry
    /\ pendingEntry' = pendingEntry \cup {"geocode"}
    /\ UNCHANGED <<coordInput, producer, classifyArgs, urlTimer, chip, classifying,
                   classifierVars, coastVars, locateVars,
                   nominatimVars, runnerVars, historyVars, haversineVars,
                   displayVars, cacheVars, retryVars>>

\* Nominatim answers, or the lookup throws and handleSearch shows
\* 'Location Search Failed'.
GeocodeSettles ==
    /\ "geocode" \in pendingEntry
    /\ pendingEntry' = pendingEntry \ {"geocode"}
    /\ \/ \E answer \in GeocoderAnswers :
             classifyArgs' = geocodeAddress(answer.lat, answer.lon)
       \/ classifyArgs' = Refuse("Location Search Failed")
    /\ classifying' = Handed(classifyArgs')
    /\ Len(classifying') <= MaxOverlap
    /\ producer' = "geocoder"
    /\ UNCHANGED <<coordInput, urlTimer, chip, classifierVars, coastVars, locateVars,
                   nominatimVars, runnerVars, historyVars, haversineVars,
                   displayVars, cacheVars, retryVars>>

\* App.handleDetectLocation: GeoLocation.requestLocation awaits the browser.
HandleDetectLocation ==
    /\ "device" \notin pendingEntry
    /\ pendingEntry' = pendingEntry \cup {"device"}
    /\ UNCHANGED <<coordInput, producer, classifyArgs, urlTimer, chip, classifying,
                   classifierVars, coastVars, locateVars,
                   nominatimVars, runnerVars, historyVars, haversineVars,
                   displayVars, cacheVars, retryVars>>

\* The browser reports a position, or the request fails and
\* handleDetectLocation shows 'Location Access Failed'.
DeviceSettles ==
    /\ "device" \in pendingEntry
    /\ pendingEntry' = pendingEntry \ {"device"}
    /\ \/ \E position \in DevicePositions :
             classifyArgs' = Classify(position.lat, position.lon)
       \/ classifyArgs' = Refuse("Location Access Failed")
    /\ classifying' = Handed(classifyArgs')
    /\ Len(classifying') <= MaxOverlap
    /\ producer' = "device"
    /\ UNCHANGED <<coordInput, urlTimer, chip, classifierVars, coastVars, locateVars,
                   nominatimVars, runnerVars, historyVars, haversineVars,
                   displayVars, cacheVars, retryVars>>

\* App.handleUrlParams on a page URL with ?lat=...&lon=..., called once by
\* App.init: it sets a timer of 400 ms, or does nothing.
HandleUrlParams ==
    /\ urlTimer = "unread"
    /\ urlTimer' = IF handleUrlParams(coordInput.lat, coordInput.lon).status = "classified"
                   THEN "pending" ELSE "none"
    /\ UNCHANGED <<coordInput, producer, classifyArgs, pendingEntry, chip, classifying,
                   classifierVars, coastVars, locateVars,
                   nominatimVars, runnerVars, historyVars, haversineVars,
                   displayVars, cacheVars, retryVars>>

\* The timer of handleUrlParams fires: classifyAndDisplay(parsedLat, parsedLon).
UrlTimerFires ==
    /\ urlTimer = "pending"
    /\ urlTimer' = "fired"
    /\ classifyArgs' = handleUrlParams(coordInput.lat, coordInput.lon)
    /\ classifying' = Handed(classifyArgs')
    /\ Len(classifying') <= MaxOverlap
    /\ producer' = "url"
    /\ UNCHANGED <<coordInput, pendingEntry, chip, classifierVars, coastVars, locateVars,
                   nominatimVars, runnerVars, historyVars, haversineVars,
                   displayVars, cacheVars, retryVars>>

\* A classifyAndDisplay call that has not finished gets its result and
\* calls showResults, which saves result.coordinates: HistoryModule.save
\* writes the list with JSON.stringify and render puts the stored numbers
\* on the newest chip.
ShowResultsSaves ==
    /\ \E i \in 1..Len(classifying) :
          /\ chip' = [saved |-> TRUE, lat |-> JsonRoundTrip(classifying[i].lat),
                      lon |-> JsonRoundTrip(classifying[i].lon)]
          /\ classifying' = Without(classifying, i)
    /\ UNCHANGED <<coordInput, producer, classifyArgs, urlTimer, pendingEntry,
                   classifierVars, coastVars, locateVars,
                   nominatimVars, runnerVars, historyVars, haversineVars,
                   displayVars, cacheVars, retryVars>>

\* A classifyAndDisplay call that has not finished ends in its catch
\* block: classifyLocation has thrown, showError is called, nothing is saved.
ClassificationFails ==
    /\ \E i \in 1..Len(classifying) :
          classifying' = Without(classifying, i)
    /\ UNCHANGED <<coordInput, producer, classifyArgs, urlTimer, pendingEntry, chip,
                   classifierVars, coastVars, locateVars,
                   nominatimVars, runnerVars, historyVars, haversineVars,
                   displayVars, cacheVars, retryVars>>

\* A click on the chip: App.classifyAndDisplay(lat, lon, name) with the
\* numbers parseFloat reads from its attributes.
ChipClick ==
    /\ chip.saved
    /\ classifyArgs' = Classify(parseChip(chip.lat), parseChip(chip.lon))
    /\ classifying' = Handed(classifyArgs')
    /\ Len(classifying') <= MaxOverlap
    /\ producer' = "chip"
    /\ UNCHANGED <<coordInput, urlTimer, pendingEntry, chip, classifierVars, coastVars, locateVars,
                   nominatimVars, runnerVars, historyVars, haversineVars,
                   displayVars, cacheVars, retryVars>>

NextEntry ==
    \/ HandleSearchCoordinates
    \/ HandleSearchPlaceName
    \/ GeocodeSettles
    \/ HandleDetectLocation
    \/ DeviceSettles
    \/ HandleUrlParams
    \/ UrlTimerFires
    \/ ShowResultsSaves
    \/ ClassificationFails
    \/ ChipClick
    \/ Clear

SpecEntry == InitEntry /\ [][NextEntry]_vars

-----------------------------------------------------------------------------
(* The requests to Nominatim: forward searches (Geocoding.geocode, which   *)
(* calls enforceRateLimit and then APIClient.geocodeAddress) and reverse   *)
(* lookups (GeoLocation.getLocationName), started at any time and running  *)
(* concurrently on the event loop.  Timers fire when they are due.         *)

\* The clock advances by MIN_REQUEST_DELAY / StepsPerDelay at most.
StepsPerDelay == 2

\* The session is observed for HorizonDelays * MIN_REQUEST_DELAY ms.
HorizonDelays == 3

Horizon == HorizonDelays * MIN_REQUEST_DELAY

\* A lookup waiting for a timer, and the lookups whose timer is running.
Waiting(i) == calls[i].pc \in {"rateWait", "sleep"}

\* await this.sleep(1000) / setTimeout(resolve, 1000) started at time t.
Sleeping(kind, t, startedAt) ==
    [kind |-> kind, pc |-> "sleep", wakeAt |-> t + 1000, startedAt |-> startedAt]

\* The lookups are numbered in the order in which they are started.
CanStart(i) ==
    /\ calls[i].pc = "idle"
    /\ \A j \in 1..(i - 1) : calls[j].pc # "idle"

\* Geocoding.geocode up to its first timer: enforceRateLimit either waits for
\* the rest of the delay, or records the time and returns, and then
\* geocodeAddress sleeps for a second.
StartGeocode(i) ==
    /\ CanStart(i)
    /\ LET timeSinceLastRequest == now - lastRequestTime
       IN  IF timeSinceLastRequest < MIN_REQUEST_DELAY
           THEN /\ calls' = [calls EXCEPT ![i] =
                               [kind |-> "geocode", pc |-> "rateWait",
                                wakeAt |-> now + (MIN_REQUEST_DELAY - timeSinceLastRequest),
                                startedAt |-> now]]
                /\ UNCHANGED lastRequestTime
           ELSE /\ lastRequestTime' = now
                /\ calls' = [calls EXCEPT ![i] = Sleeping("geocode", now, now)]
    /\ UNCHANGED <<sent, entryVars, runnerVars, historyVars, haversineVars, displayVars, cacheVars, retryVars, classifierVars,
                   coastVars, locateVars>>

\* enforceRateLimit after its timer: this.lastRequestTime = Date.now(), then
\* geocodeAddress sleeps for a second.
RateWaitOver(i) ==
    /\ calls[i].pc = "rateWait"
    /\ calls[i].wakeAt <= now
    /\ lastRequestTime' = now
    /\ calls' = [calls EXCEPT ![i] = Sleeping("geocode", now, calls[i].startedAt)]
    /\ UNCHANGED <<sent, entryVars, runnerVars, historyVars, haversineVars, displayVars, cacheVars, retryVars, classifierVars,
                   coastVars, locateVars>>

\* GeoLocation.getLocationName up to its timer.
StartReverse(i) ==
    /\ CanStart(i)
    /\ calls' = [calls EXCEPT ![i] = Sleeping("reverse", now, now)]
    /\ UNCHANGED <<lastRequestTime, sent, entryVars, runnerVars, historyVars, haversineVars, displayVars, cacheVars, retryVars,
                   classifierVars, coastVars, locateVars>>

\* The sleep is over: fetch(url) sends the request to Nominatim; no cache
\* is read before it and none is written after it.  The searches of a
\* session are for one address and the reverse lookups for one coordinate.
SendRequest(i) ==
    /\ calls[i].pc = "sleep"
    /\ calls[i].wakeAt <= now
    /\ sent' = Append(sent, [kind |-> calls[i].kind, at |-> now,
                             startedAt |-> calls[i].startedAt])
    /\ calls' = [calls EXCEPT ![i].pc = "done"]
    /\ UNCHANGED <<lastRequestTime, entryVars, runnerVars, historyVars, haversineVars, displayVars, cacheVars, retryVars,
                   classifierVars, coastVars, locateVars>>

\* The earlier of two times.
Earlier(a, b) == IF a < b THEN a ELSE b

\* Time passes while no timer is due, up to the next timer at most.
TimePasses ==
    /\ now < Horizon
    /\ \A i \in 1..MaxRequests : Waiting(i) => calls[i].wakeAt > now
    /\ \E t \in { Earlier(now + MIN_REQUEST_DELAY \div StepsPerDelay, Horizon) } :
          now' = IF \E i \in 1..MaxRequests : Waiting(i) /\ calls[i].wakeAt < t
                 THEN CHOOSE w \in { calls[i].wakeAt : i \in { j \in 1..MaxRequests : Waiting(j) } } :
                         \A i \in 1..MaxRequests : Waiting(i) => w <= calls[i].wakeAt
                 ELSE t
    /\ UNCHANGED <<localStorage, coastFn, coastQuery, cacheHit, scanned,
                   minDistance, classifierVars, locateVars, uiVars>>

InitNominatim ==
    /\ elevation = Fin(0)
    /\ coastDistance = Fin(0)
    /\ precipitation = Fin(0)
    /\ called = "none"
    /\ region = "none"
    /\ reasons = << >>
    /\ InitCoastVars
    /\ InitLocateVars
    /\ InitUiVars

NextNominatim ==
    \/ \E i \in 1..MaxRequests :
          StartGeocode(i) \/ RateWaitOver(i) \/ StartReverse(i) \/ SendRequest(i)
    \/ TimePasses

SpecNominatim == InitNominatim /\ [][NextNominatim]_vars

-----------------------------------------------------------------------------
(* runTests: classifyLocation is awaited for the entries of testLocations  *)
(* one after the other and its region is compared with the key of the      *)
(* entry.  Both terrain APIs answer every request of the run and every     *)
(* write to localStorage succeeds.                                         *)

\* The entries of testLocations the model keeps, in the order of the
\* fixture: one location per region, and Leh, which the fixture lists under
\* kurinji and again under paalai.
testLocations ==
    << [expectedRegion |-> "neithal",  name |-> "Mumbai, India",
        lat |-> 190760, lon |-> 728777],
       [expectedRegion |-> "kurinji",  name |-> "Leh, Ladakh, India",
        lat |-> 341526, lon |-> 775771],
       [expectedRegion |-> "mullai",   name |-> "Wayanad, India",
        lat |-> 116854, lon |-> 761320],
       [expectedRegion |-> "marudham", name |-> "Patna, India",
        lat |-> 255941, lon |-> 851376],
       [expectedRegion |-> "paalai",   name |-> "Leh (lower regions), India",
        lat |-> 341526, lon |-> 775771] >>

\* The coordinates of those entries.
TestCoordinates ==
    { [lat |-> Fin(testLocations[i].lat), lon |-> Fin(testLocations[i].lon)] :
        i \in 1..Len(testLocations) }

\* String.prototype.toLowerCase on a label.
toLowerCase(label) ==
    CASE label = "Neithal"  -> "neithal"
      [] label = "Kurinji"  -> "kurinji"
      [] label = "Paalai"   -> "paalai"
      [] label = "Mullai"   -> "mullai"
      [] label = "Marudham" -> "marudham"
      [] OTHER              -> label

InitFixture ==
    /\ elevation = Fin(0)
    /\ coastDistance = Fin(0)
    /\ precipitation = Fin(0)
    /\ called = "none"
    /\ region = "none"
    /\ reasons = << >>
    /\ InitCoastVars
    /\ InitLocateVars
    /\ InitEntryVars
    /\ InitNominatimVars
    /\ answers \in [TestCoordinates ->
                      [elevation : ElevationAnswers, precipitation : PrecipitationAnswers]]
    /\ testIndex = 1
    /\ runnerPc = "next"
    /\ results = [total |-> 0, passed |-> 0, failed |-> 0]
    /\ InitHistoryVars
    /\ InitHaversineVars
    /\ InitDisplayVars
    /\ InitCacheVars
    /\ InitRetryVars

\* for (const location of locations) { results.total++; ... : the next entry
\* is taken and classifyLocation is about to be called on it.
BeginTest ==
    /\ runnerPc = "next"
    /\ testIndex <= Len(testLocations)
    /\ results' = [results EXCEPT !.total = @ + 1]
    /\ coordinates' = [lat |-> Fin(testLocations[testIndex].lat),
                       lon |-> Fin(testLocations[testIndex].lon)]
    /\ terrain' = answers[coordinates']
    /\ phase' = "idle"
    /\ runnerPc' = "classify"
    /\ UNCHANGED <<answers, testIndex, network, elevationP, coastDistanceP,
                   precipitationP, completed, applyCalls, result, regionDataP, coastVars,
                   classifierVars, entryVars, nominatimVars, historyVars,
                   haversineVars, displayVars, cacheVars, retryVars>>

\* TerrainAnalyzer.classifyLocation(location.lat, location.lon) is called.
CallClassifyLocation ==
    /\ runnerPc = "classify"
    /\ phase = "idle"
    /\ StartClassifyLocation
    /\ network'.elevation /\ network'.precipitation
    /\ CoastKey(coordinates.lat, coordinates.lon) \in DOMAIN localStorage'

\* The elevation request of the current test is answered.
AnswerElevation ==
    /\ CompleteElevation
    /\ ElevationKey(coordinates.lat, coordinates.lon) \in DOMAIN localStorage'

\* The precipitation request of the current test is answered.
AnswerPrecipitation ==
    /\ CompletePrecipitation
    /\ PrecipitationKey(coordinates.lat, coordinates.lon) \in DOMAIN localStorage'

\* data/regions.json of the test page is answered with the table.
AnswerRegions ==
    /\ ReturnAfterRegionData
    /\ regionDataP' = "regions.json"

\* The await resumes with the result: the lower-cased region is compared
\* with the key of the entry and the counters are updated.
RecordResult ==
    /\ runnerPc = "classify"
    /\ phase = "done"
    /\ result.status = "ok"
    /\ LET passed == toLowerCase(result.region) = testLocations[testIndex].expectedRegion
       IN  results' = IF passed THEN [results EXCEPT !.passed = @ + 1]
                      ELSE [results EXCEPT !.failed = @ + 1]
    /\ testIndex' = testIndex + 1
    /\ runnerPc' = IF testIndex = Len(testLocations) THEN "finished" ELSE "next"
    /\ UNCHANGED <<answers, locateVars, coastVars, classifierVars, entryVars,
                   nominatimVars, historyVars, haversineVars, displayVars, cacheVars, retryVars>>

NextFixture ==
    \/ BeginTest
    \/ CallClassifyLocation
    \/ AnswerElevation
    \/ AnswerPrecipitation
    \/ ClassifyAfterJoin
    \/ AnswerRegions
    \/ RecordResult

SpecFixture == InitFixture /\ [][NextFixture]_vars

-----------------------------------------------------------------------------
(* HistoryModule: the list of recent locations kept in localStorage under  *)
(* STORAGE_KEY.  Coordinates are integers in units of 1/256 degree, so     *)
(* that differences are exact in double arithmetic; an entry is its        *)
(* coordinate and its time stamp (name, region, icon and color are         *)
(* carried along unchanged).                                               *)

MAX_ITEMS == 5

UnitsPerDegree == 256

\* The locations that are saved: along the meridian 0, one every 100 units,
\* and two neighbours of the first, 2 units north and 3 units east of it.
SaveLocations ==
    { [lat |-> 100 * i, lon |-> 0] : i \in 0..MAX_ITEMS }
        \cup { [lat |-> 2, lon |-> 0], [lat |-> 0, lon |-> 3] }

Abs(x) == IF x < 0 THEN 0 - x ELSE x

\* Variant: only an entry at exactly the same coordinate is dropped.
KeptByFilter_ExactMatch(h, lat, lon) ==
    \/ h.lat # lat
    \/ h.lon # lon

\* The filter of save: Math.abs(h.lat - lat) > 0.01 || Math.abs(h.lon - lon) > 0.01.
KeptByFilter(h, lat, lon) ==
    \/ Abs(h.lat - lat) * 100 > UnitsPerDegree
    \/ Abs(h.lon - lon) * 100 > UnitsPerDegree

\* history.filter(...) in the order of the list.
RECURSIVE filterHistory(_, _, _)
filterHistory(history, lat, lon) ==
    IF history = << >> THEN << >>
    ELSE IF KeptByFilter(Head(history), lat, lon)
    THEN <<Head(history)>> \o filterHistory(Tail(history), lat, lon)
    ELSE filterHistory(Tail(history), lat, lon)

\* filtered.slice(0, n).
slice(list, n) == SubSeq(list, 1, IF Len(list) < n THEN Len(list) ELSE n)

\* Variant: the list is not trimmed.
save_NoTrim(history, lat, lon, t, setItemOk) ==
    IF setItemOk
    THEN <<[lat |-> lat, lon |-> lon, ts |-> t]>> \o filterHistory(history, lat, lon)
    ELSE history

\* HistoryModule.save at time t on the stored list: what is stored afterwards
\* (setItem may throw, which is caught and leaves the stored list as it was).
save(history, lat, lon, t, setItemOk) ==
    IF setItemOk
    THEN slice(<<[lat |-> lat, lon |-> lon, ts |-> t]>>
                   \o filterHistory(history, lat, lon), MAX_ITEMS)
    ELSE history

InitHistory ==
    /\ elevation = Fin(0)
    /\ coastDistance = Fin(0)
    /\ precipitation = Fin(0)
    /\ called = "none"
    /\ region = "none"
    /\ reasons = << >>
    /\ InitCoastVars
    /\ InitLocateVars
    /\ InitUiVars

\* HistoryModule.save(locationName, region, icon, color, lat, lon).
Save ==
    \E l \in SaveLocations, setItemOk \in BOOLEAN :
        /\ historyItem' = save(historyItem, l.lat, l.lon, now, setItemOk)
        /\ lastSave' = [called |-> TRUE, lat |-> l.lat, lon |-> l.lon,
                        stored |-> setItemOk, before |-> historyItem]
        /\ UNCHANGED <<entryVars, nominatimVars, runnerVars, haversineVars, displayVars, cacheVars, retryVars,
                       classifierVars, coastVars, locateVars>>

NextHistory == Save \/ Clear

SpecHistory == InitHistory /\ [][NextHistory]_vars

-----------------------------------------------------------------------------
(* APIClient.haversineDistance in both argument orders *)

\* The coordinates of the comparison: four test locations and four
\* reference points.
SymmetryPoints ==
    { [lat |-> 190760, lon |-> 728777], [lat |-> 116854, lon |-> 761320],
      [lat |-> 255941, lon |-> 851376], [lat |-> 341526, lon |-> 775771],
      [lat |-> 130800, lon |-> 802700], [lat |-> 190800, lon |-> 728800],
      [lat |-> 225700, lon |-> 883600], [lat |-> 230000, lon |-> 725000] }

\* haversineDistance evaluated in double arithmetic with its arguments in
\* the order of the row, as <<lat1, lon1, lat2, lon2, whole meters,
\* nanometers beyond them>> (the value rounded to the nearest nanometer).
HaversineNanometers ==
    {
      \* from Mumbai (19.076, 72.8777)
      <<190760, 728777, 190760, 728777, 0, 0>>,
      <<190760, 728777, 116854, 761320, 892677, 666904721>>,
      <<190760, 728777, 255941, 851376, 1453228, 78119942>>,
      <<190760, 728777, 341526, 775771, 1739676, 562111661>>,
      <<190760, 728777, 130800, 802700, 1033238, 912223615>>,
      <<190760, 728777, 190800, 728800, 506, 209905390>>,
      <<190760, 728777, 225700, 883600, 1654391, 858628486>>,
      <<190760, 728777, 230000, 725000, 438085, 130759825>>,
      \* from Wayanad (11.6854, 76.132)
      <<116854, 761320, 190760, 728777, 892677, 666904721>>,
      <<116854, 761320, 116854, 761320, 0, 0>>,
      <<116854, 761320, 255941, 851376, 1812756, 52941407>>,
      <<116854, 761320, 341526, 775771, 2502532, 128390661>>,
      <<116854, 761320, 130800, 802700, 475406, 172414797>>,
      <<116854, 761320, 190800, 728800, 892989, 572324361>>,
      <<116854, 761320, 225700, 883600, 1773745, 891436726>>,
      <<116854, 761320, 230000, 725000, 1315622, 335494131>>,
      \* from Patna (25.5941, 85.1376)
      <<255941, 851376, 190760, 728777, 1453228, 78119942>>,
      <<255941, 851376, 116854, 761320, 1812756, 52941407>>,
      <<255941, 851376, 255941, 851376, 0, 0>>,
      <<255941, 851376, 341526, 775771, 1197881, 341056889>>,
      <<255941, 851376, 130800, 802700, 1481782, 199149252>>,
      <<255941, 851376, 190800, 728800, 1452786, 897381798>>,
      <<255941, 851376, 225700, 883600, 469086, 216890556>>,
      <<255941, 851376, 230000, 725000, 1312244, 907479757>>,
      \* from Leh (34.1526, 77.5771)
      <<341526, 775771, 190760, 728777, 1739676, 562111661>>,
      <<341526, 775771, 116854, 761320, 2502532, 128390661>>,
      <<341526, 775771, 255941, 851376, 1197881, 341056889>>,
      <<341526, 775771, 341526, 775771, 0, 0>>,
      <<341526, 775771, 130800, 802700, 2358888, 653307698>>,
      <<341526, 775771, 190800, 728800, 1739185, 306317491>>,
      <<341526, 775771, 225700, 883600, 1662556, 945059644>>,
      <<341526, 775771, 230000, 725000, 1334977, 731192874>>,
      \* from Chennai (reference) (13.08, 80.27)
      <<130800, 802700, 190760, 728777, 1033238, 912223615>>,
      <<130800, 802700, 116854, 761320, 475406, 172414797>>,
      <<130800, 802700, 255941, 851376, 1481782, 199149252>>,
      <<130800, 802700, 341526, 775771, 2358888, 653307698>>,
      <<130800, 802700, 130800, 802700, 0, 0>>,
      <<130800, 802700, 190800, 728800, 1033331, 890777950>>,
      <<130800, 802700, 225700, 883600, 1358164, 510035049>>,
      <<130800, 802700, 230000, 725000, 1374512, 237381005>>,
      \* from Mumbai (reference) (19.08, 72.88)
      <<190800, 728800, 190760, 728777, 506, 209905390>>,
      <<190800, 728800, 116854, 761320, 892989, 572324361>>,
      <<190800, 728800, 255941, 851376, 1452786, 897381798>>,
      <<190800, 728800, 341526, 775771, 1739185, 306317491>>,
      <<190800, 728800, 130800, 802700, 1033331, 890777950>>,
      <<190800, 728800, 190800, 728800, 0, 0>>,
      <<190800, 728800, 225700, 883600, 1654035, 327043625>>,
      <<190800, 728800, 230000, 725000, 437663, 522681618>>,
      \* from Kolkata (reference) (22.57, 88.36)
      <<225700, 883600, 190760, 728777, 1654391, 858628486>>,
      <<225700, 883600, 116854, 761320, 1773745, 891436726>>,
      <<225700, 883600, 255941, 851376, 469086, 216890556>>,
      <<225700, 883600, 341526, 775771, 1662556, 945059644>>,
      <<225700, 883600, 130800, 802700, 1358164, 510035049>>,
      <<225700, 883600, 190800, 728800, 1654035, 327043625>>,
      <<225700, 883600, 225700, 883600, 0, 0>>,
      <<225700, 883600, 230000, 725000, 1625845, 864800365>>,
      \* from Gujarat (reference) (23.0, 72.5)
      <<230000, 725000, 190760, 728777, 438085, 130759825>>,
      <<230000, 725000, 116854, 761320, 1315622, 335494131>>,
      <<230000, 725000, 255941, 851376, 1312244, 907479757>>,
      <<230000, 725000, 341526, 775771, 1334977, 731192874>>,
      <<230000, 725000, 130800, 802700, 1374512, 237381005>>,
      <<230000, 725000, 190800, 728800, 437663, 522681618>>,
      <<230000, 725000, 225700, 883600, 1625845, 864800365>>,
      <<230000, 725000, 230000, 725000, 0, 0>> }

\* The table as a function of <<lat1, lon1, lat2, lon2>>.
HaversineNanometersAt ==
    [ k \in { <<r[1], r[2], r[3], r[4]>> : r \in HaversineNanometers } |->
        LET r == CHOOSE r \in HaversineNanometers : <<r[1], r[2], r[3], r[4]>> = k
        IN  [m |-> r[5], nm |-> r[6]] ]

\* Variant: the distance comes out a meter longer when the second point lies
\* north of the first.
haversineExact_NorthboundLonger(lat1, lon1, lat2, lon2) ==
    LET d == HaversineNanometersAt[<<lat1, lon1, lat2, lon2>>]
    IN  IF lat2 > lat1 THEN [m |-> d.m + 1, nm |-> d.nm] ELSE d

\* haversineDistance(lat1, lon1, lat2, lon2) to the nanometer.
haversineExact(lat1, lon1, lat2, lon2) ==
    HaversineNanometersAt[<<lat1, lon1, lat2, lon2>>]

InitHaversine ==
    /\ elevation = Fin(0)
    /\ coastDistance = Fin(0)
    /\ precipitation = Fin(0)
    /\ called = "none"
    /\ region = "none"
    /\ reasons = << >>
    /\ InitCoastVars
    /\ InitLocateVars
    /\ InitEntryVars
    /\ InitNominatimVars
    /\ InitRunnerVars
    /\ InitHistoryVars
    /\ pointA \in SymmetryPoints
    /\ pointB \in SymmetryPoints
    /\ distanceAB = NoDistance
    /\ distanceBA = NoDistance
    /\ InitRetryVars
    /\ InitCacheVars
    /\ InitDisplayVars

\* haversineDistance(A, B) and haversineDistance(B, A).
CallHaversineBothWays ==
    /\ distanceAB = NoDistance
    /\ distanceAB' = haversineExact(pointA.lat, pointA.lon, pointB.lat, pointB.lon)
    /\ distanceBA' = haversineExact(pointB.lat, pointB.lon, pointA.lat, pointA.lon)
    /\ UNCHANGED <<pointA, pointB, entryVars, nominatimVars, runnerVars,
                   historyVars, retryVars, cacheVars, displayVars,
                   classifierVars, coastVars, locateVars>>

NextHaversine == CallHaversineBothWays

SpecHaversine == InitHaversine /\ [][NextHaversine]_vars

-----------------------------------------------------------------------------
(* APIClient.fetchWithRetry *)

MAX_RETRIES == 3

RETRY_DELAY == 1000   \* initial retry delay in ms

\* How a request settles: fetch rejects ("network"), the response is not ok
\* ("http", with its status), response.json() rejects ("parse"), or the body
\* is parsed ("ok", with the body).
FetchOutcomes ==
    { [kind |-> "network", of |-> 0], [kind |-> "http", of |-> 500],
      [kind |-> "http", of |-> 429], [kind |-> "parse", of |-> 0],
      [kind |-> "ok", of |-> 1], [kind |-> "ok", of |-> 2] }

\* const isLastAttempt = attempt === retries - 1
isLastAttempt(a, retries) == a = retries - 1

\* Variant: the delay does not grow.
backoffDelay_Constant(a) == RETRY_DELAY

\* const delay = this.RETRY_DELAY * Math.pow(2, attempt)
backoffDelay(a) == RETRY_DELAY * (2 ^ a)

\* The ms the call has slept so far: before its last request, and since.
SleptSoFar ==
    IF requestLog = << >> THEN 0
    ELSE requestLog[Len(requestLog)].slept
         + (IF retryPc = "sleeping"
            THEN backoffDelay(attempt) - sleepLeft ELSE 0)

InitRetry ==
    /\ elevation = Fin(0)
    /\ coastDistance = Fin(0)
    /\ precipitation = Fin(0)
    /\ called = "none"
    /\ region = "none"
    /\ reasons = << >>
    /\ InitCoastVars
    /\ InitLocateVars
    /\ InitUiVars

\* fetchWithRetry(url): the loop starts with attempt = 0 and the first
\* fetch(url) is sent.
CallFetchWithRetry ==
    /\ retryPc = "idle"
    /\ 0 < MAX_RETRIES
    /\ attempt' = 0
    /\ requestLog' = <<[slept |-> 0, outcome |-> NoOutcome]>>
    /\ retryPc' = "fetching"
    /\ UNCHANGED <<sleepLeft, retryResult, entryVars, nominatimVars,
                   runnerVars, historyVars, haversineVars, displayVars, cacheVars, classifierVars,
                   coastVars, locateVars>>

\* The request of the current attempt settles: the body is returned, or the
\* catch block rethrows on the last attempt and sleeps otherwise.
FetchSettles ==
    \E o \in FetchOutcomes :
        /\ retryPc = "fetching"
        /\ requestLog' = [requestLog EXCEPT ![Len(requestLog)].outcome = o]
        /\ IF o.kind = "ok"
           THEN /\ retryPc' = "returned"
                /\ retryResult' = o
                /\ UNCHANGED sleepLeft
           ELSE IF isLastAttempt(attempt, MAX_RETRIES)
           THEN /\ retryPc' = "thrown"
                /\ retryResult' = o
                /\ UNCHANGED sleepLeft
           ELSE /\ retryPc' = "sleeping"
                /\ sleepLeft' = backoffDelay(attempt)
                /\ UNCHANGED retryResult
        /\ UNCHANGED <<attempt, entryVars, nominatimVars, runnerVars,
                       historyVars, haversineVars, displayVars, cacheVars, classifierVars, coastVars,
                       locateVars>>

\* RETRY_DELAY ms of the current sleep go by.
SleepGoesOn ==
    /\ retryPc = "sleeping"
    /\ sleepLeft > 0
    /\ sleepLeft' = IF sleepLeft > RETRY_DELAY THEN sleepLeft - RETRY_DELAY ELSE 0
    /\ UNCHANGED <<retryPc, attempt, requestLog, retryResult, entryVars,
                   nominatimVars, runnerVars, historyVars, haversineVars, displayVars, cacheVars,
                   classifierVars, coastVars, locateVars>>

\* The sleep is over: attempt++, and the next fetch(url) is sent if
\* attempt < retries (the function returns undefined otherwise).
SleepOver ==
    /\ retryPc = "sleeping"
    /\ sleepLeft = 0
    /\ attempt' = attempt + 1
    /\ IF attempt + 1 < MAX_RETRIES
       THEN /\ retryPc' = "fetching"
            /\ requestLog' = Append(requestLog,
                                [slept |-> SleptSoFar, outcome |-> NoOutcome])
            /\ UNCHANGED retryResult
       ELSE /\ retryPc' = "returned"
            /\ retryResult' = [kind |-> "undefined", of |-> 0]
            /\ UNCHANGED requestLog
    /\ UNCHANGED <<sleepLeft, entryVars, nominatimVars, runnerVars,
                   historyVars, haversineVars, displayVars, cacheVars, classifierVars, coastVars,
                   locateVars>>

NextRetry ==
    \/ CallFetchWithRetry
    \/ FetchSettles
    \/ SleepGoesOn
    \/ SleepOver

SpecRetry == InitRetry /\ [][NextRetry]_vars

\* Every request settles and every timer fires.
SpecRetryFair == SpecRetry /\ WF_vars(NextRetry)

-----------------------------------------------------------------------------
(* APIClient.getElevation on a cache that holds old and damaged items *)

\* The coordinate of the lookups.
CachePoint == [lat |-> Fin(190760), lon |-> Fin(728777)]

CacheKey == ElevationKey(CachePoint.lat, CachePoint.lon)

\* What localStorage holds when the page is loaded: nothing, an item written
\* when the session starts or 12 hours before, or an item that is not JSON.
InitialItems ==
    { [value |-> v, timestamp |-> t] :
        v \in ElevationAnswers, t \in {0, 0 - TickMs} } \cup {Unparsable}

InitCache ==
    /\ elevation = Fin(0)
    /\ coastDistance = Fin(0)
    /\ precipitation = Fin(0)
    /\ called = "none"
    /\ region = "none"
    /\ reasons = << >>
    /\ localStorage \in
          { << >> } \cup { [k \in {CacheKey} |-> i] : i \in InitialItems }
    /\ now = 0
    /\ coastFn = "none"
    /\ coastQuery = [lat |-> Fin(0), lon |-> Fin(0)]
    /\ cacheHit = FALSE
    /\ scanned = 0
    /\ minDistance = Null
    /\ InitLocateVars
    /\ InitUiVars

\* getElevation(lat, lon) up to its request: const cached =
\* this.getFromCache(cacheKey); if (cached !== null) return cached.
GetElevationStart ==
    /\ lookupPc = "idle"
    /\ \E r \in { getFromCache(localStorage, CacheKey, now) } :
          /\ cacheRead' = [at |-> now, before |-> localStorage, value |-> r.value]
          /\ localStorage' = r.storage
          /\ lookupPc' = IF r.value # Null THEN "idle" ELSE "fetching"
          /\ lookupEnd' = IF r.value # Null THEN "hit" ELSE "none"
    /\ UNCHANGED <<now, coastFn, coastQuery, cacheHit, scanned, minDistance,
                   classifierVars, locateVars, entryVars, nominatimVars,
                   runnerVars, historyVars, haversineVars, displayVars, retryVars>>

\* fetchWithRetry returns the body: saveToCache(cacheKey, elevation), where
\* setItem may throw.
GetElevationFetched ==
    /\ lookupPc = "fetching"
    /\ \E v \in ElevationAnswers, setItemOk \in BOOLEAN :
          /\ localStorage' = saveToCache(localStorage, CacheKey, v, now, setItemOk)
          /\ lookupEnd' = IF setItemOk THEN "written" ELSE "notWritten"
    /\ lookupPc' = "idle"
    /\ UNCHANGED <<now, coastFn, coastQuery, cacheHit, scanned, minDistance,
                   cacheRead, classifierVars, locateVars, entryVars,
                   nominatimVars, runnerVars, historyVars, haversineVars, displayVars,
                   retryVars>>

\* fetchWithRetry throws: getElevation throws 'Failed to get elevation data'.
GetElevationFailed ==
    /\ lookupPc = "fetching"
    /\ lookupPc' = "idle"
    /\ lookupEnd' = "failed"
    /\ UNCHANGED <<coastVars, cacheRead, classifierVars, locateVars, entryVars,
                   nominatimVars, runnerVars, historyVars, haversineVars, displayVars,
                   retryVars>>

NextCache ==
    \/ GetElevationStart
    \/ GetElevationFetched
    \/ GetElevationFailed
    \/ Tick

SpecCache == InitCache /\ [][NextCache]_vars

-----------------------------------------------------------------------------
(* App: the loading, results and error sections, and the requests that     *)
(* write them.  A request is a search, a detect-location, a history-chip   *)
(* click or the URL-parameter classification; it runs from its handler to  *)
(* showResults or showError, suspended at each await, and requests overlap *)
(* when a handler starts while another request is suspended.  App.init has *)
(* run: the page URL had no coordinate, or the timer of handleUrlParams is *)
(* pending.                                                                *)

\* Variant: hideAllSections leaves the error section as it is.
hideAllSections_KeepsError(s) ==
    [loading |-> FALSE, results |-> FALSE, error |-> s.error]

\* hideAllSections(): the class hidden is added to the three sections.
hideAllSections(s) == [loading |-> FALSE, results |-> FALSE, error |-> FALSE]

\* The coordinate of the request with the number id, in 1/UnitsPerDegree
\* degree: the requests are for places a degree apart or more.
LocationOf(id) == [lat |-> UnitsPerDegree * id, lon |-> 0]

\* getCoastDistance evaluated in double arithmetic at the coordinates of
\* the requests, (1, 0), (2, 0), ... in degrees: the distance to the nearest
\* reference point, in meters rounded to the nearest.
RequestCoastMeters == << 1128456, 1133693, 1149597, 1165117, 1180231 >>

\* The coast distance in km of a request's coordinate, as a number of the
\* model (units of 1/Scale km).
coastDistanceAt(loc) ==
    Fin((RequestCoastMeters[loc.lat \div UnitsPerDegree] * Scale) \div 1000)

\* The label classifyLocation returns for a coordinate when the elevation
\* lookup gives e and the precipitation lookup gives p.
RegionAt(loc, e, p) == applyClassificationRules(e, coastDistanceAt(loc), p)

FreeSlot(s) == requests[s].pc = "free"

\* showLoading(message).
ShowLoading ==
    /\ sections' = [hideAllSections(sections) EXCEPT !.loading = TRUE]
    /\ UNCHANGED <<dataRegion, resultCard, shareContext, historyVars>>

\* showError(title, message).
ShowError ==
    /\ sections' = [hideAllSections(sections) EXCEPT !.error = TRUE]
    /\ dataRegion' = "none"
    /\ UNCHANGED <<resultCard, shareContext, historyVars>>

\* showResults(result, locationName) for the request r: the sections are
\* hidden, the body gets the label, the card is filled, the share context
\* is set, the location is saved to the history and the results section is
\* shown.
ShowResults(r) ==
    /\ sections' = [hideAllSections(sections) EXCEPT !.results = TRUE]
    /\ dataRegion' = r.region
    /\ resultCard' = r.id
    /\ shareContext' = r.id
    /\ historyItem' = save(historyItem, r.loc.lat, r.loc.lon, now, TRUE)
    /\ lastSave' = [called |-> TRUE, lat |-> r.loc.lat, lon |-> r.loc.lon,
                    stored |-> TRUE, before |-> historyItem]

InitDisplay ==
    /\ elevation = Fin(0)
    /\ coastDistance = Fin(0)
    /\ precipitation = Fin(0)
    /\ called = "none"
    /\ region = "none"
    /\ reasons = << >>
    /\ InitCoastVars
    /\ InitLocateVars
    /\ coordInput = [lat |-> Fin(0), lon |-> Fin(0)]
    /\ producer = "none"
    /\ classifyArgs = NotCalled
    /\ urlTimer \in {"none", "pending"}
    /\ pendingEntry = {}
    /\ chip = NoChip
    /\ classifying = << >>
    /\ InitNominatimVars
    /\ InitRunnerVars
    /\ InitHistoryVars
    /\ InitHaversineVars
    /\ InitDisplayVars
    /\ InitCacheVars
    /\ InitRetryVars

\* handleSearch() on an empty input: showError('Input Required', ...).
HandleSearchEmpty ==
    /\ ShowError
    /\ UNCHANGED <<requests, started, latestLoc, finishedOk, entryVars, nominatimVars,
                   runnerVars, haversineVars, retryVars, cacheVars,
                   classifierVars, coastVars, locateVars>>

\* handleSearch() / handleDetectLocation() up to the first await: showLoading,
\* then Geocoding.search or GeoLocation.requestLocation is pending.
HandleSearchOrDetect(s) ==
    \E kind \in {"search", "detect"} :
        /\ FreeSlot(s)
        /\ started < MaxStarts
        /\ started' = started + 1
        /\ requests' = [requests EXCEPT ![s] =
              [id |-> started + 1, kind |-> kind, pc |-> "locating",
               loc |-> LocationOf(started + 1), displayName |-> FALSE,
               region |-> "none"]]
        /\ latestLoc' = LocationOf(started + 1)
        /\ ShowLoading
        /\ UNCHANGED <<finishedOk, entryVars, nominatimVars, runnerVars,
                       haversineVars, retryVars, cacheVars, classifierVars,
                       coastVars, locateVars>>

\* The timer of handleUrlParams fires, whatever has happened since App.init,
\* or a history chip is clicked: classifyAndDisplay(lat, lon, name) up to its
\* first await.  It calls updateLoadingMessage only, which changes no section.
ClassifyAndDisplayDirectly(s) ==
    /\ FreeSlot(s)
    /\ started < MaxStarts
    /\ started' = started + 1
    /\ \/ /\ urlTimer = "pending"
          /\ urlTimer' = "fired"
          /\ requests' = [requests EXCEPT ![s] =
                [id |-> started + 1, kind |-> "url", pc |-> "classifying",
                 loc |-> LocationOf(started + 1), displayName |-> FALSE,
                 region |-> "none"]]
          /\ latestLoc' = LocationOf(started + 1)
       \/ \E k \in 1..Len(historyItem) :
             /\ requests' = [requests EXCEPT ![s] =
                   [id |-> started + 1, kind |-> "chip", pc |-> "classifying",
                    loc |-> [lat |-> historyItem[k].lat, lon |-> historyItem[k].lon],
                    displayName |-> TRUE, region |-> "none"]]
             /\ latestLoc' = [lat |-> historyItem[k].lat, lon |-> historyItem[k].lon]
             /\ UNCHANGED urlTimer
    /\ UNCHANGED <<sections, dataRegion, resultCard, shareContext, finishedOk,
                   historyVars, coordInput, producer, classifyArgs, pendingEntry,
                   chip, classifying, nominatimVars, runnerVars,
                   haversineVars, retryVars, cacheVars, classifierVars,
                   coastVars, locateVars>>

\* Geocoding.search or GeoLocation.requestLocation settles: the handler
\* calls classifyAndDisplay (a search passes the display name), or its catch
\* block calls showError.
LocateSettles(s) ==
    /\ requests[s].pc = "locating"
    /\ \E found \in BOOLEAN :
          IF found
          THEN /\ requests' = [requests EXCEPT ![s].pc = "classifying",
                                  ![s].displayName = (requests[s].kind = "search")]
               /\ UNCHANGED <<sections, dataRegion, resultCard, shareContext,
                              historyVars>>
          ELSE /\ requests' = [requests EXCEPT ![s] = NoRequest]
               /\ ShowError
    /\ UNCHANGED <<started, latestLoc, finishedOk, entryVars, nominatimVars, runnerVars,
                   haversineVars, retryVars, cacheVars, classifierVars,
                   coastVars, locateVars>>

\* TerrainAnalyzer.classifyLocation settles: showError in the catch block,
\* showResults when the display name is there, and the await of
\* GeoLocation.getLocationName otherwise.  The label of the result is the
\* one the rules give for what the two terrain lookups returned.
ClassifySettles(s) ==
    /\ requests[s].pc = "classifying"
    /\ \E classified \in BOOLEAN, e \in ElevationAnswers, p \in PrecipitationAnswers :
       \E r \in { [requests[s] EXCEPT !.region = RegionAt(requests[s].loc, e, p)] } :
          IF ~classified
          THEN /\ requests' = [requests EXCEPT ![s] = NoRequest]
               /\ ShowError
               /\ UNCHANGED finishedOk
          ELSE IF requests[s].displayName
          THEN /\ requests' = [requests EXCEPT ![s] = NoRequest]
               /\ ShowResults(r)
               /\ finishedOk' = finishedOk \cup {[id |-> r.id, region |-> r.region]}
          ELSE /\ requests' = [requests EXCEPT ![s] = [r EXCEPT !.pc = "naming"]]
               /\ UNCHANGED <<sections, dataRegion, resultCard, shareContext,
                              historyVars, finishedOk>>
    /\ UNCHANGED <<started, latestLoc, entryVars, nominatimVars, runnerVars,
                   haversineVars, retryVars, cacheVars, classifierVars,
                   coastVars, locateVars>>

\* GeoLocation.getLocationName settles (it never rejects): showResults.
NameSettles(s) ==
    /\ requests[s].pc = "naming"
    /\ requests' = [requests EXCEPT ![s] = NoRequest]
    /\ ShowResults(requests[s])
    /\ finishedOk' = finishedOk \cup {[id |-> requests[s].id,
                                        region |-> requests[s].region]}
    /\ UNCHANGED <<started, latestLoc, entryVars, nominatimVars, runnerVars,
                   haversineVars, retryVars, cacheVars, classifierVars,
                   coastVars, locateVars>>

\* resetToInput(): the "try another" and the "retry" button.
ResetToInput ==
    /\ sections' = hideAllSections(sections)
    /\ dataRegion' = "none"
    /\ UNCHANGED <<resultCard, shareContext, requests, started, latestLoc, finishedOk,
                   historyVars, entryVars, nominatimVars, runnerVars,
                   haversineVars, retryVars, cacheVars, classifierVars,
                   coastVars, locateVars>>

NextDisplay ==
    \/ HandleSearchEmpty
    \/ ResetToInput
    \/ Clear
    \/ \E s \in 1..MaxOverlap :
          \/ HandleSearchOrDetect(s)
          \/ ClassifyAndDisplayDirectly(s)
          \/ LocateSettles(s)
          \/ ClassifySettles(s)
          \/ NameSettles(s)

SpecDisplay == InitDisplay /\ [][NextDisplay]_vars

-----------------------------------------------------------------------------
(* The rules as the specification and the README state them, over the      *)
(* current input triple.  They are written out here with their own numbers *)
(* and operators, independently of the definitions above.                  *)

AllFinite ==
    IsFinite(elevation) /\ IsFinite(coastDistance) /\ IsFinite(precipitation)

TableNeithal ==
    JsLe(coastDistance, 50 * Scale) /\ JsLt(elevation, 200 * Scale)

TableKurinji ==
    JsGe(elevation, 1000 * Scale) /\ JsGt(coastDistance, 50 * Scale)

TablePaalai ==
    /\ JsLt(precipitation, 250 * Scale)
    /\ JsLt(elevation, 1000 * Scale)
    /\ JsGt(coastDistance, 50 * Scale)

TableMullai ==
    /\ JsGe(elevation, 200 * Scale)
    /\ JsLt(elevation, 1000 * Scale)
    /\ JsGe(precipitation, 250 * Scale)
    /\ JsGt(coastDistance, 50 * Scale)

TableMarudham ==
    /\ JsLt(elevation, 200 * Scale)
    /\ JsGe(precipitation, 250 * Scale)
    /\ JsGt(coastDistance, 50 * Scale)

\* The label of the first strict predicate that holds, "none" if none does.
TableFirstMatch ==
    IF TableNeithal THEN "Neithal"
    ELSE IF TableKurinji THEN "Kurinji"
    ELSE IF TablePaalai THEN "Paalai"
    ELSE IF TableMullai THEN "Mullai"
    ELSE IF TableMarudham THEN "Marudham"
    ELSE "none"

\* The label of the first relaxed check that holds.
TableBestFit ==
    IF JsLe(coastDistance, 75 * Scale) THEN "Neithal"
    ELSE IF JsGe(elevation, 800 * Scale) THEN "Kurinji"
    ELSE IF JsLt(precipitation, 300 * Scale) THEN "Paalai"
    ELSE IF JsGe(elevation, 160 * Scale) /\ JsLt(elevation, 1000 * Scale)
         THEN "Mullai"
    ELSE "Marudham"

\* StrictOrder with the checks at positions i and j exchanged.
Swapped(i, j) ==
    [StrictOrder EXCEPT ![i] = StrictOrder[j], ![j] = StrictOrder[i]]

-----------------------------------------------------------------------------
(* Claims about the classifier, checked under SpecClassifier *)

\* C1 (totality): for every finite elevation, every coastDistance >= 0 and
\* every precipitation >= 0, applyClassificationRules returns one of the five
\* labels, never undefined or null.
C1_Totality ==
    ( /\ called = "apply"
      /\ AllFinite
      /\ coastDistance.v >= 0
      /\ precipitation.v >= 0 )
    => region \in Category

\* C1 witness: a non-negative finite triple that passes no strict check
\* (coastal but not low) has been classified.
C1_Witness ==
    /\ called = "apply"
    /\ elevation = Fin(500 * Scale)
    /\ coastDistance = Fin(5 * Scale)
    /\ precipitation = Fin(900 * Scale)
    /\ TableFirstMatch = "none"
    /\ region \in Category

\* C2 (strict tier, first match wins): whenever a strict predicate of the
\* table holds, applyClassificationRules returns the label of the first one
\* that holds; coastDistance = 50 with elevation = 199 gives Neithal and a
\* finite sample with coastDistance above 50 and that elevation does not.
C2_StrictFirstMatch ==
    called = "apply" =>
        /\ TableFirstMatch # "none" => region = TableFirstMatch
        /\ ( coastDistance = Fin(50 * Scale) /\ elevation = Fin(199 * Scale) )
              => region = "Neithal"
        /\ ( /\ AllFinite
             /\ coastDistance.v > 50 * Scale
             /\ elevation = Fin(199 * Scale) )
              => region # "Neithal"

\* C2 witness: the boundary sample coastDistance = 50, elevation = 199 has
\* been classified Neithal.
C2_Witness ==
    /\ called = "apply"
    /\ coastDistance = Fin(50 * Scale)
    /\ elevation = Fin(199 * Scale)
    /\ region = "Neithal"

\* C3 (fallback tier): getBestFitRegion returns the label of the first
\* relaxed check that holds (coast <= 75, elevation >= 800, precipitation
\* < 300, 160 <= elevation < 1000, else Marudham), and
\* applyClassificationRules returns that value whenever no strict predicate
\* holds.
C3_FallbackOrder ==
    /\ called = "bestFit" => region = TableBestFit
    /\ ( called = "apply" /\ TableFirstMatch = "none" ) => region = TableBestFit

\* C3 witness: getBestFitRegion has decided a sample in the slack band of
\* its first check (50 < coastDistance <= 75) whose elevation would pass the
\* second check.
C3_Witness ==
    /\ called = "bestFit"
    /\ coastDistance = Fin(75 * Scale)
    /\ elevation = Fin(800 * Scale)
    /\ region = "Neithal"

\* C4 (inland classification follows the criteria table): for finite input
\* with coastDistance > 50 the label is Kurinji if elevation >= 1000, Paalai
\* if elevation < 1000 and precipitation < 250, Mullai if 200 <= elevation
\* < 1000 and precipitation >= 250, Marudham if elevation < 200 and
\* precipitation >= 250.
C4_InlandTable ==
    ( called = "apply" /\ AllFinite /\ coastDistance.v > 50 * Scale ) =>
        region = IF elevation.v >= 1000 * Scale THEN "Kurinji"
                 ELSE IF precipitation.v < 250 * Scale THEN "Paalai"
                 ELSE IF elevation.v >= 200 * Scale THEN "Mullai"
                 ELSE "Marudham"

\* C4 witness: the high interior point (elevation 3500, coastDistance 800)
\* has been classified Kurinji with a precipitation below the arid bound.
C4_Witness ==
    /\ called = "apply"
    /\ elevation = Fin(3500 * Scale)
    /\ coastDistance = Fin(800 * Scale)
    /\ precipitation = Fin(150 * Scale)
    /\ region = "Kurinji"

\* C5 as stated (the Neithal row characterises the label): for finite input
\* applyClassificationRules returns Neithal exactly when elevation < 200 and
\* coastDistance <= 50.
C5_NeithalIffTableRow ==
    ( called = "apply" /\ AllFinite ) =>
        ( region = "Neithal" <=>
            ( elevation.v < 200 * Scale /\ coastDistance.v <= 50 * Scale ) )

\* C5 amended: for finite input applyClassificationRules returns Neithal
\* exactly when coastDistance <= 50, whatever the elevation.
C5_NeithalIffCoastal ==
    ( called = "apply" /\ AllFinite ) =>
        ( region = "Neithal" <=> coastDistance.v <= 50 * Scale )

\* C5 witness: a coastal sample above the low-elevation bound has been
\* classified Neithal.
C5_Witness ==
    /\ called = "apply"
    /\ AllFinite
    /\ coastDistance.v <= 50 * Scale
    /\ elevation.v >= 1000 * Scale
    /\ region = "Neithal"

\* C6 (mutual exclusion): no input triple passes two of the five strict
\* checks.
C6_StrictChecksExclusive ==
    \A i, j \in 1..Len(StrictOrder) :
        i # j =>
            ~ ( /\ strictCheck(StrictOrder[i], elevation, coastDistance, precipitation)
                /\ strictCheck(StrictOrder[j], elevation, coastDistance, precipitation) )

\* C6 witness: a classified sample that passes the Paalai check and differs
\* from a Marudham sample in its precipitation only.
C6_Witness ==
    /\ called = "apply"
    /\ paalaiCheck(elevation, coastDistance, precipitation)
    /\ elevation = Fin(199 * Scale)
    /\ precipitation = Fin(250 * Scale - 1)
    /\ region = "Paalai"

\* C7 as stated (order is observable): there are two strict checks and a
\* finite input triple for which evaluating the two checks in the opposite
\* order changes the label.
C7_OrderObservable ==
    \E i, j \in 1..Len(StrictOrder) :
        \E e \in ElevationInputs, c \in CoastDistanceInputs, p \in PrecipitationInputs :
            /\ called \in {"none", "apply", "bestFit"}
            /\ i < j
            /\ IsFinite(e) /\ IsFinite(c) /\ IsFinite(p)
            /\ applyRulesInOrder(Swapped(i, j), e, c, p)
                 # applyClassificationRules(e, c, p)

\* C7 amended: exchanging any two strict checks never changes the label
\* applyClassificationRules returns.
C7_OrderNotObservable ==
    called = "apply" =>
        /\ applyRulesInOrder(StrictOrder, elevation, coastDistance, precipitation)
             = region
        /\ \A i, j \in 1..Len(StrictOrder) :
             applyRulesInOrder(Swapped(i, j), elevation, coastDistance, precipitation)
               = region

\* C7 witness: a classified sample decided by the third check whose
\* elevation also satisfies the elevation conjunct of the fifth.
C7_Witness ==
    /\ called = "apply"
    /\ elevation = Fin(100 * Scale)
    /\ coastDistance = Fin(600 * Scale)
    /\ precipitation = Fin(150 * Scale)
    /\ applyRulesInOrder(Swapped(3, 5), elevation, coastDistance, precipitation)
         = "Paalai"
    /\ region = "Paalai"

\* C8 (non-finite input is rejected): if an argument is NaN or infinite the
\* call fails with InvalidInput and returns no label.
C8_NonFiniteRejected ==
    ( called = "apply" /\ ~AllFinite ) => region = "InvalidInput"

\* C24 (the fallback tier is reached only on the coast): for finite inputs
\* applyClassificationRules reaches its getBestFitRegion call exactly when
\* coastDistance <= 50 and elevation >= 200; that call is decided by its
\* first check and returns Neithal; so every finite sample with
\* coastDistance <= 50 is labelled Neithal.
C24_FallbackOnlyOnCoast ==
    (/\ called = "apply"
     /\ IsFinite(elevation) /\ IsFinite(coastDistance) /\ IsFinite(precipitation)) =>
        /\ reachesFallback(elevation, coastDistance, precipitation) <=>
              (coastDistance.v <= 50 * Scale /\ elevation.v >= 200 * Scale)
        /\ reachesFallback(elevation, coastDistance, precipitation) =>
              /\ coastDistance.v <= 75 * Scale
              /\ getBestFitRegion(elevation, coastDistance, precipitation) = "Neithal"
              /\ region = "Neithal"
        /\ coastDistance.v <= 50 * Scale => region = "Neithal"

\* C24 witness: a dry sample at 3500 m, 50 km from the coast, has gone
\* through the fallback and is labelled Neithal.
C24_Witness ==
    /\ called = "apply"
    /\ elevation = Fin(3500 * Scale)
    /\ coastDistance = Fin(50 * Scale)
    /\ precipitation = Fin(150 * Scale)
    /\ reachesFallback(elevation, coastDistance, precipitation)
    /\ region = "Neithal"

\* C25 (the two copies of the classifier agree): whatever a function of one
\* copy has returned for a triple of numbers, the function of the same name
\* in the other copy returns for that triple, and building the log
\* arguments of the logging copy throws nothing.
C25_CopiesAgree ==
    /\ called = "applyPlain" =>
          region = applyClassificationRulesLogged(elevation, coastDistance,
                                                  precipitation)
    /\ called = "bestFitPlain" =>
          region = getBestFitRegion(elevation, coastDistance, precipitation)
    /\ called = "apply" =>
          /\ ~neithalLogThrows(elevation, coastDistance, precipitation)
          /\ region = applyClassificationRulesPlain(elevation, coastDistance,
                                                    precipitation)
    /\ called = "bestFit" =>
          region = getBestFitRegionPlain(elevation, coastDistance, precipitation)

\* C25 witness: the copy without logging has labelled a sample without an
\* elevation, 600 km inland, through its best fit; the logging copy formats
\* that coast distance with toFixed.
C25_Witness ==
    /\ called = "applyPlain"
    /\ elevation = NaN
    /\ coastDistance = Fin(600 * Scale)
    /\ precipitation = Fin(150 * Scale)
    /\ region = "Paalai"
    /\ region = getBestFitRegionPlain(elevation, coastDistance, precipitation)

-----------------------------------------------------------------------------
(* Claims about the coast-distance estimator, checked under SpecCoast *)

\* The reference points the last call scanned.
PointsOfLastCall ==
    IF coastFn = "getCoastDistance" THEN getCoastalReferencePoints
    ELSE getCoastalReferencePointsDebug

\* The distance from the last call's coordinate to the i-th of them.
DistanceTo(i) ==
    haversineDistance(coastQuery.lat, coastQuery.lon,
                      PointsOfLastCall[i].lat, PointsOfLastCall[i].lon)

\* C9 (minimum over all reference points): on a cache miss getCoastDistance
\* visits every reference point and returns a value that is <= the distance
\* to each of them and equal to the distance to one of them.
C9_MinimumOverAllPoints ==
    ( coastFn # "none" /\ ~cacheHit ) =>
        /\ scanned = Len(PointsOfLastCall)
        /\ \A i \in 1..Len(PointsOfLastCall) : ~NumLess(DistanceTo(i), minDistance)
        /\ \E i \in 1..Len(PointsOfLastCall) : minDistance = DistanceTo(i)

\* C9 witness: a cache miss for Patna, whose nearest reference point
\* (Kolkata) is the thirteenth of the list, has returned the distance to it
\* after visiting every point.
C9_Witness ==
    /\ coastFn = "getCoastDistance"
    /\ ~cacheHit
    /\ coastQuery = [lat |-> Fin(255941), lon |-> Fin(851376)]
    /\ scanned = Len(getCoastalReferencePoints)
    /\ minDistance = DistanceTo(13)
    /\ \A i \in 1..Len(getCoastalReferencePoints) :
          i # 13 => NumLess(minDistance, DistanceTo(i))

\* C10 (no query against an empty set, no infinite distance): every cache
\* miss scans a non-empty reference point set, and no call of
\* getCoastDistance returns an infinite distance.  The code has no check of
\* the set; the logging copy returns Infinity for a non-finite coordinate.
C10_NeverEmptyNeverInfinite ==
    coastFn # "none" =>
        /\ ~cacheHit => ( Len(PointsOfLastCall) >= 1 /\ scanned >= 1 )
        /\ minDistance # PosInfinity

-----------------------------------------------------------------------------
(* Claims about state changes of the core *)

\* The two cache keys a getCoastDistance call on the coordinate q can use.
OwnKeys(q) == { CoastKey(q.lat, q.lon), CoastKeyDebug(q.lat, q.lon) }

\* C11 as stated (no state is changed): no step of a session of
\* getCoastDistance calls changes localStorage.
C11_StorageNeverChanges == [][localStorage' = localStorage]_vars

\* C11 as amended: a getCoastDistance call changes localStorage at most at
\* the cache key of its own coordinate (it writes the computed distance on a
\* miss and removes an expired item); every other item is left as it was,
\* and a call answered from the cache changes nothing.
C11_OnlyOwnCacheEntryChanges ==
    [][ /\ \A k \in (DOMAIN localStorage \cup DOMAIN localStorage') \ OwnKeys(coastQuery') :
              /\ k \in DOMAIN localStorage
              /\ k \in DOMAIN localStorage'
              /\ localStorage'[k] = localStorage[k]
        /\ cacheHit' => localStorage' = localStorage
      ]_vars

\* C11 witness: a cache miss has written its result under its own key while
\* an item of another coordinate is in the storage.
C11_Witness ==
    /\ coastFn = "getCoastDistance"
    /\ ~cacheHit
    /\ CoastKey(coastQuery.lat, coastQuery.lon) \in DOMAIN localStorage
    /\ localStorage[CoastKey(coastQuery.lat, coastQuery.lon)].value = minDistance
    /\ \E k \in DOMAIN localStorage : k \notin OwnKeys(coastQuery)

-----------------------------------------------------------------------------
(* Claims about classifyLocation, checked under SpecLocate *)

\* The coast distance of the coordinate of the session.
NearestDistance ==
    scanMin(getCoastalReferencePoints, 1, coordinates.lat, coordinates.lon,
            PosInfinity).min

\* C12 (join before classification): applyClassificationRules runs at most
\* once per call of classifyLocation and only when the three lookups are
\* fulfilled; the result returned is the one determined by the coordinate,
\* the answers of the two APIs and whether the precipitation lookup failed,
\* whatever the order in which the lookups completed.
C12_JoinBeforeClassification ==
    /\ applyCalls <= 1
    /\ applyCalls = 1 =>
          /\ elevationP.state = "fulfilled"
          /\ coastDistanceP.state = "fulfilled"
          /\ precipitationP.state = "fulfilled"
          /\ phase \in {"regions", "done"}
    /\ result.status = "ok" =>
          /\ applyCalls = 1
          /\ LET rain == IF precipitationP.source = "default"
                         THEN DefaultPrecipitation ELSE terrain.precipitation
             IN  result = classifyResult(coordinates.lat, coordinates.lon,
                            applyClassificationRules(terrain.elevation,
                                                     NearestDistance, rain),
                            terrain.elevation, NearestDistance, rain,
                            result.regionData.from)

\* C12 witness: a call has returned a label after the precipitation lookup
\* completed before the elevation lookup.
C12_Witness ==
    /\ result.status = "ok"
    /\ applyCalls = 1
    /\ completed = <<"coastDistance", "precipitation", "elevation">>
    /\ result.region \in Category

-----------------------------------------------------------------------------
(* Claims about the entry points, checked under SpecEntry *)

\* C13 (coordinate ranges): every coordinate handed to classifyLocation has
\* its latitude in [-90, 90] and its longitude in [-180, 180].
C13_OnlyValidCoordinatesClassified ==
    classifyArgs.status = "classified" =>
        /\ IsFinite(classifyArgs.lat) /\ IsFinite(classifyArgs.lon)
        /\ -90 <= classifyArgs.lat.v /\ classifyArgs.lat.v <= 90
        /\ -180 <= classifyArgs.lon.v /\ classifyArgs.lon.v <= 180

-----------------------------------------------------------------------------
(* Claims about the explanation, checked under SpecClassifier *)

\* Whether a justification is true of the current sample.
ReasonHolds(reason) ==
    CASE reason = "Within 50km of the coast" -> JsLe(coastDistance, Th(THRESHOLDS.COASTAL_DISTANCE))
      [] reason = "Low elevation"            -> JsLt(elevation, Th(THRESHOLDS.LOW_ELEVATION))
      [] reason = "High elevation"           -> JsGe(elevation, Th(THRESHOLDS.HIGH_ELEVATION))
      [] reason = "Low annual rainfall"      -> JsLt(precipitation, Th(THRESHOLDS.LOW_PRECIPITATION))
      [] reason = "Inland location"          -> JsGt(coastDistance, Th(THRESHOLDS.COASTAL_DISTANCE))
      [] OTHER                               -> TRUE

\* C14 (explanation consistent with the sample): for a finite sample every
\* justification returned for the label of applyClassificationRules is true
\* of the sample.
C14_ExplanationTrueOfSample ==
    AllFinite => \A i \in 1..Len(reasons) : ReasonHolds(reasons[i])

-----------------------------------------------------------------------------
(* Claims about failed lookups, checked under SpecLocate *)

\* C15 (substituted default is distinguishable): when the precipitation
\* lookup has failed and the default was substituted, what the caller gets
\* differs from what it gets after a successful lookup that returned the
\* same number: the value of getAnnualPrecipitation is not the plain number
\* 500, and the result of classifyLocation is not the result built from an
\* answer of 500.
C15_DefaultDistinguishable ==
    precipitationP.source = "default" =>
        /\ precipitationP.value # Fin(500 * Scale)
        /\ result.status = "ok" =>
              result # classifyResult(coordinates.lat, coordinates.lon,
                                      applyClassificationRules(elevationP.value,
                                          coastDistanceP.value, Fin(500 * Scale)),
                                      elevationP.value, coastDistanceP.value,
                                      Fin(500 * Scale), result.regionData.from)

\* C23 as stated: a finished classifyLocation call has thrown 'Failed to
\* analyze terrain. Please try again.' exactly when its elevation lookup
\* rejected.  Violated: a call whose three lookups were fulfilled throws
\* when data/regions.json is answered with the body null.
C23_RejectsExactlyOnElevationFailure ==
    phase = "done" =>
        /\ result = classifyError <=> elevationP.state = "rejected"
        /\ result.status = "error" <=> elevationP.state = "rejected"

\* C23 (when classifyLocation rejects): a finished classifyLocation call has
\* thrown 'Failed to analyze terrain. Please try again.' exactly when its
\* elevation lookup rejected or the region metadata was loaded as null;
\* otherwise it has returned a label, with the precipitation taken as 500
\* when the precipitation lookup failed, and with the region table of the
\* catch block when the metadata could not be loaded.
C23_RejectsOnElevationFailureOrNullTable ==
    phase = "done" =>
        LET thrown == elevationP.state = "rejected" \/ regionDataP = "null"
        IN  /\ result = classifyError <=> thrown
            /\ result.status = "error" <=> thrown
            /\ ~(elevationP.state = "rejected" /\ regionDataP = "null")
            /\ ~thrown =>
                  /\ result.status = "ok"
                  /\ result.region \in {"Kurinji", "Mullai", "Marudham", "Neithal", "Paalai"}
                  /\ result.regionData.key = result.region
                  /\ result.regionData.from = regionDataP
                  /\ regionDataP \in {"regions.json", "fallback"}
                  /\ result.terrainData.coastDistance = coastDistanceP.value
                  /\ precipitationP.source = "default" =>
                        result.terrainData.precipitation = Fin(500 * Scale)

\* C23 witness: in a call that missed the cache three times the
\* precipitation lookup failed, the elevation was fetched, the rules were
\* applied, and the call has thrown because the region metadata was null.
C23_Witness ==
    /\ phase = "done"
    /\ ~network.precipitation
    /\ precipitationP.source = "default"
    /\ elevationP.source = "network"
    /\ coastDistanceP.source = "computed"
    /\ applyCalls = 1
    /\ regionDataP = "null"
    /\ result = classifyError

\* C27 (the default precipitation is never cached): the step in which
\* getAnnualPrecipitation returns the default 500 leaves the whole storage
\* as it is; while the default is the value of the lookup there is no
\* precipitation entry for the coordinate; and the next precipitation lookup
\* for the coordinate misses the cache and goes to the network.
C27_DefaultNeverCached ==
    /\ [](precipitationP.source = "default" =>
            PrecipitationKey(coordinates.lat, coordinates.lon)
                \notin DOMAIN localStorage)
    /\ [][(precipitationP.source # "default" /\ precipitationP'.source = "default")
             => localStorage' = localStorage]_vars
    /\ [][(precipitationP.source = "default" /\ precipitationP' # precipitationP)
             => (precipitationP'.state = "pending" /\ phase' = "awaiting")]_vars

\* C27 witness: a call has returned a label from a fetched elevation and the
\* default precipitation; the elevation and the coast distance are cached
\* and the precipitation is not.
C27_Witness ==
    /\ phase = "done"
    /\ result.status = "ok"
    /\ precipitationP.source = "default"
    /\ result.terrainData.precipitation = Fin(500 * Scale)
    /\ ElevationKey(coordinates.lat, coordinates.lon) \in DOMAIN localStorage
    /\ CoastKey(coordinates.lat, coordinates.lon) \in DOMAIN localStorage
    /\ PrecipitationKey(coordinates.lat, coordinates.lon) \notin DOMAIN localStorage

-----------------------------------------------------------------------------
(* Claims about the requests to Nominatim, checked under SpecNominatim *)

\* C16 (at most one request per second): any two requests sent to Nominatim
\* are at least 1000 ms apart.
C16_OneRequestPerSecond ==
    \A i, j \in 1..Len(sent) : i < j => sent[j].at - sent[i].at >= 1000

\* C17 (every API response is cached for 24 hours): once a geocoding
\* request has been sent and answered, a lookup of the same kind for the same
\* place that is started later, less than 24 hours after it, sends no
\* request.
C17_RepeatedLookupSendsNoRequest ==
    \A i, j \in 1..Len(sent) :
        ( /\ i < j
          /\ sent[i].kind = sent[j].kind
          /\ sent[j].startedAt > sent[i].at ) =>
            sent[j].at - sent[i].at >= CACHE_DURATION

-----------------------------------------------------------------------------
(* Claims about the test fixture, checked under SpecFixture *)

\* C18 (the fixture passes): for every entry of testLocations,
\* classifyLocation resolves and its region, lower-cased, is the key the
\* entry is listed under: no test of the run fails.
C18_EveryFixtureEntryPasses == results.failed = 0

-----------------------------------------------------------------------------
(* Claims about the history, checked under SpecHistory *)

\* The coordinate of the last save is a location of its own: the filter of
\* save keeps every entry of the list it was saved to.
SavedLocationIsNew ==
    \A i \in 1..Len(lastSave.before) :
        KeptByFilter(lastSave.before[i], lastSave.lat, lastSave.lon)

\* C19 (history keeps the last five locations): after a save whose storage
\* write succeeded, and until the history is cleared, the stored list has at most MAX_ITEMS entries, the entry
\* just saved is at index 0, the entries behind it are entries of the list
\* before the save in their former order, and when the list was full and the
\* location is a new one, they are all but the oldest of them.
C19_LastFiveMostRecentFirst ==
    /\ Len(historyItem) <= MAX_ITEMS
    /\ ( lastSave.called /\ lastSave.stored /\ historyItem # << >> ) =>
          /\ Len(historyItem) >= 1
          /\ historyItem[1].lat = lastSave.lat
          /\ historyItem[1].lon = lastSave.lon
          /\ Tail(historyItem) =
                slice(filterHistory(lastSave.before, lastSave.lat, lastSave.lon),
                      Len(historyItem) - 1)
          /\ ( Len(lastSave.before) = MAX_ITEMS /\ SavedLocationIsNew ) =>
                Tail(historyItem) = SubSeq(lastSave.before, 1, MAX_ITEMS - 1)

\* C19 witness: a sixth location, new to a full list, has been saved; it is
\* at index 0 and the oldest entry of the list is gone.
C19_Witness ==
    /\ lastSave.called /\ lastSave.stored
    /\ Len(lastSave.before) = MAX_ITEMS
    /\ SavedLocationIsNew
    /\ Len(historyItem) = MAX_ITEMS
    /\ historyItem[1].lat = lastSave.lat
    /\ \A i \in 1..Len(historyItem) :
          <<historyItem[i].lat, historyItem[i].lon>> #
             <<lastSave.before[MAX_ITEMS].lat, lastSave.before[MAX_ITEMS].lon>>

\* Two coordinates no more than 0.01 degree apart on both axes.
NearDuplicates(a, b) ==
    /\ Abs(a.lat - b.lat) * 100 <= UnitsPerDegree
    /\ Abs(a.lon - b.lon) * 100 <= UnitsPerDegree

\* C26 (no near-duplicates in the history): no two stored entries are
\* within 0.01 degree of each other on both axes; after a save that was
\* stored, and until the history is cleared, the saved coordinate is the first entry, and the others are the
\* entries of the list before that are not within 0.01 degree of it, in
\* their order: an entry near the saved coordinate has been replaced.
C26_NoNearDuplicates ==
    /\ \A i, j \in 1..Len(historyItem) :
          i # j => ~NearDuplicates(historyItem[i], historyItem[j])
    /\ (lastSave.called /\ lastSave.stored /\ historyItem # << >>) =>
          LET saved == [lat |-> lastSave.lat, lon |-> lastSave.lon]
              far == { i \in 1..Len(lastSave.before) :
                          ~NearDuplicates(lastSave.before[i], saved) }
          IN  /\ Len(historyItem) >= 1
              /\ historyItem[1].lat = saved.lat /\ historyItem[1].lon = saved.lon
              /\ \A k \in 2..Len(historyItem) :
                    /\ ~NearDuplicates(historyItem[k], saved)
                    /\ \E i \in far :
                          /\ lastSave.before[i] = historyItem[k]
                          /\ Cardinality({ m \in far : m < i }) = k - 2
              /\ Len(historyItem) <= Cardinality(far) + 1

\* C26 witness: a coordinate 2/256 degree north of the third of three
\* stored entries has been saved; it is now the first of three entries.
C26_Witness ==
    /\ lastSave.called /\ lastSave.stored
    /\ Len(lastSave.before) = 3
    /\ lastSave.before[3].lat = 0 /\ lastSave.before[3].lon = 0
    /\ lastSave.lat = 2 /\ lastSave.lon = 0
    /\ Len(historyItem) = 3
    /\ historyItem[1].lat = 2
    /\ historyItem[2] = lastSave.before[1]
    /\ historyItem[3] = lastSave.before[2]

-----------------------------------------------------------------------------
(* Claims about haversineDistance, checked under SpecHaversine *)

\* C20 (haversine symmetry): haversineDistance(A, B) and
\* haversineDistance(B, A) agree within a relative tolerance of 1e-9: they
\* have the same whole meters, and their nanometers differ by no more than
\* the distance in meters (1e-9 of a distance of m meters is m nanometers).
C20_HaversineSymmetric ==
    distanceAB # NoDistance =>
        /\ distanceAB.m = distanceBA.m
        /\ Abs(distanceAB.nm - distanceBA.nm) <= distanceAB.m

\* C20 witness: both orders have been evaluated for two different points
\* more than a thousand kilometers apart, one of them north-east of the other.
C20_Witness ==
    /\ distanceAB # NoDistance /\ distanceBA # NoDistance
    /\ pointA.lat < pointB.lat /\ pointA.lon < pointB.lon
    /\ distanceAB.m > 1000000

-----------------------------------------------------------------------------
(* Claims about fetchWithRetry, checked under SpecRetryFair *)

\* What holds at every moment of a fetchWithRetry call.
RetryIsBounded ==
    /\ Len(requestLog) <= MAX_RETRIES
    /\ \A i \in 1..Len(requestLog) :
          /\ i < Len(requestLog) =>
                requestLog[i].outcome.kind \in {"network", "http", "parse"}
          /\ i > 1 =>
                requestLog[i].slept - requestLog[i - 1].slept
                    = 1000 * (2 ^ (i - 2))
    /\ retryPc = "returned" =>
          /\ retryResult.kind = "ok"
          /\ retryResult = requestLog[Len(requestLog)].outcome
    /\ retryPc = "thrown" =>
          /\ Len(requestLog) = MAX_RETRIES
          /\ retryResult = requestLog[MAX_RETRIES].outcome
          /\ retryResult.kind # "ok"
          /\ SleptSoFar = 1000 + 2000
    /\ retryPc \in {"returned", "thrown"} => sleepLeft = 0

\* C21 (retry with backoff): one fetchWithRetry call sends at most
\* MAX_RETRIES = 3 requests and none after a successful one; the request
\* after the k-th failed one (k = 0, 1) is sent after a wait of
\* RETRY_DELAY x 2^k ms (1000, then 2000); the third failure is rethrown as
\* it is, with no further wait; and the call ends once its requests settle.
C21_RetryBoundedAndTerminates ==
    /\ []RetryIsBounded
    /\ <>(retryPc \in {"returned", "thrown"})

\* C21 witness: three requests failed in three different ways, the call
\* slept 1000 ms and 2000 ms between them and threw the third error.
C21_Witness ==
    /\ retryPc = "thrown"
    /\ Len(requestLog) = 3
    /\ requestLog[1].outcome.kind = "network"
    /\ requestLog[2].outcome.kind = "parse"
    /\ requestLog[3].outcome = [kind |-> "http", of |-> 429]
    /\ retryResult = [kind |-> "http", of |-> 429]
    /\ requestLog[2].slept = 1000 /\ requestLog[3].slept = 3000

-----------------------------------------------------------------------------
(* Claims about the cache, checked under SpecCache *)

\* The item getFromCache found under the key, and its age at the read.
ReadFound == CacheKey \in DOMAIN cacheRead.before

ReadParsable == ReadFound /\ cacheRead.before[CacheKey] # Unparsable

ReadAge == cacheRead.at - cacheRead.before[CacheKey].timestamp

ReadExpired == ReadParsable /\ ReadAge >= 24 * 60 * 60 * 1000

\* C22 as stated: whenever a lookup has found an item of age >= 24 h, once
\* the lookup is over the item has been fetched again and written again.
C22_ExpiredItemIsRewritten ==
    (cacheRead # NoRead /\ ReadExpired /\ lookupPc = "idle") =>
        /\ CacheKey \in DOMAIN localStorage
        /\ localStorage[CacheKey].timestamp >= cacheRead.at

\* C22 (cache expiry): getFromCache returns the stored value exactly when
\* an item exists under the key, parses, and is younger than 24 h; an item
\* of age >= 24 h is removed by the read, which returns null; a missing or
\* unparsable item gives null and leaves the storage as it is; after a null
\* the lookup goes to the network, and it writes the item again when the
\* request succeeds and the write does.
C22_CacheExpiry ==
    cacheRead # NoRead =>
        /\ cacheRead.value # Null <=>
              (ReadParsable /\ ReadAge < 24 * 60 * 60 * 1000)
        /\ cacheRead.value # Null =>
              /\ cacheRead.value = cacheRead.before[CacheKey].value
              /\ lookupEnd = "hit"
              /\ localStorage = cacheRead.before
        /\ ReadExpired =>
              /\ cacheRead.value = Null
              /\ lookupPc = "fetching" => CacheKey \notin DOMAIN localStorage
        /\ (~ReadFound \/ ~ReadParsable) =>
              /\ cacheRead.value = Null
              /\ lookupPc = "fetching" => localStorage = cacheRead.before
        /\ cacheRead.value = Null =>
              /\ lookupPc = "fetching" \/ lookupEnd \in {"written", "notWritten", "failed"}
              /\ lookupEnd = "written" =>
                    /\ CacheKey \in DOMAIN localStorage
                    /\ localStorage[CacheKey] # Unparsable
                    /\ localStorage[CacheKey].timestamp >= cacheRead.at
              /\ lookupEnd \in {"notWritten", "failed"} =>
                    localStorage = getFromCache(cacheRead.before, CacheKey,
                                                cacheRead.at).storage

\* C22 witness: a lookup found an item exactly 24 h old, removed it, went to
\* the network and wrote a new item.
C22_Witness ==
    /\ cacheRead # NoRead
    /\ ReadParsable
    /\ ReadAge = 24 * 60 * 60 * 1000
    /\ cacheRead.value = Null
    /\ lookupEnd = "written"
    /\ localStorage[CacheKey].timestamp = cacheRead.at

-----------------------------------------------------------------------------
(* Claims about the sections of the page, checked under SpecDisplay *)

\* The sections that are un-hidden.
VisibleSections == { n \in {"loading", "results", "error"} : sections[n] }

\* The requests that are suspended at an await.
PendingRequests == { s \in 1..MaxOverlap : requests[s].pc # "free" }

\* C28 (at most one dynamic section is visible): whatever the handlers have
\* done, in whatever order overlapping requests have settled, no two of the
\* loading, results and error sections are un-hidden.
C28_AtMostOneSectionVisible == Cardinality(VisibleSections) <= 1

\* C28 witness: the error section is the only one visible while a request
\* is still suspended and another one has shown its result before.
C28_Witness ==
    /\ VisibleSections = {"error"}
    /\ PendingRequests # {}
    /\ finishedOk # {}
    /\ started >= 2

\* C29 (latest request wins): once no request is pending and the request
\* that was started last has shown its result, the result card, the share
\* context and the head of the history are those of that request, and so is
\* the body's data-region while the results section is visible.
C29_LatestRequestWins ==
    \A last \in finishedOk :
        (PendingRequests = {} /\ last.id = started) =>
            /\ resultCard = started
            /\ shareContext = started
            /\ historyItem # << >>
            /\ historyItem[1].lat = latestLoc.lat
            /\ historyItem[1].lon = latestLoc.lon
            /\ sections.results => dataRegion = last.region

=============================================================================
